---- MODULE Spec2Model ----
(***************************************************************************)
(* Model of the workflow compiler of src/framework.js: generateWorkflow,   *)
(* parseSentence, the commandParsers registry, AdvancedParserContext, the  *)
(* SCHEMA validation gate and renderWorkflowAsMermaid.                     *)
(*                                                                         *)
(* generateWorkflow starts the dispatch of every line before it awaits any *)
(* of them (Promise.all over async parseSentence calls), so the model      *)
(* keeps the promise table and the FIFO microtask queue of the run and     *)
(* executes one job per step.                                              *)
(*                                                                         *)
(* Text is modelled as a sequence of whitespace-separated tokens; the      *)
(* regular expressions of the registry are matched on token sequences.     *)
(* The context is modelled as constructed (stepCounter 1, empty maps).     *)
(*                                                                         *)
(* Further specifications over the same variables: ParserSpec (parser.js), *)
(* RenderSpec (calls of renderWorkflowAsMermaid), PairSpec (two compile    *)
(* calls), LoggerSpec (QuantumTCCLogger) and PoolSpec (KnowledgePool).     *)
(***************************************************************************)
EXTENDS Integers, Sequences, FiniteSets, TLC

\* Largest number of raw input lines of one compile call.
MaxLines == 2

(***************************************************************************)
(* State                                                                   *)
(***************************************************************************)

VARIABLES
  input,         \* the text given to generateWorkflow, as its raw lines
  pc,            \* "start", "dispatch" (the synchronous map), "run", "done"
  cursor,        \* the sentence the map dispatches next
  stepCounter,   \* context.stepCounter
  typeMap,       \* context.typeMap
  errors,        \* context.errors
  macros,        \* context.macros
  promises,      \* the promises of the call, by id
  jobs,          \* the microtask queue
  linePromises,  \* the promises parseSentence returned, by sentence
  allPromise,    \* the promise of Promise.all
  allValues,     \* Promise.all's values, by sentence
  allLeft,       \* Promise.all's count of unsettled elements
  result,        \* what generateWorkflow returns
  other,         \* a second generateWorkflow call, while the first one runs
  alone,         \* what a call returned that ran with no other call
  renders,       \* what the calls of renderWorkflowAsMermaid returned
  logger,        \* a QuantumTCCLogger: its logs and its step
  awaiting,      \* the log() calls that await storage
  entries,       \* KnowledgePool.entries
  now            \* Date.now()

vars ==
  <<input, pc, cursor, stepCounter, typeMap, errors, macros, promises, jobs,
    linePromises, allPromise, allValues, allLeft, result,
    other, alone, renders, logger, awaiting, entries, now>>

\* What generateWorkflow neither reads nor writes.
Aside == <<other, alone, renders, logger, awaiting, entries, now>>

NoResult == [none |-> TRUE]
EmptyMap == [n \in {} |-> ""]
Null == [null |-> TRUE]

(***************************************************************************)
(* Text                                                                    *)
(***************************************************************************)

\* Tokens of the vocabulary that hold a character outside [A-Za-z0-9_].
NonWordTokens ==
  {"", "+", "-", "*", "/", "(", ")", ">", "<", ">=", "<=", "=", "==", "===", "!==", "&&", "||", ",",
   "2.5"}

\* Tokens of the vocabulary matching \d+.
DigitTokens == {"0", "1", "2", "3"}

\* /^\w+$/ on one token.
IsWord(t) == t \notin NonWordTokens

\* /^\d+$/ on one token.
IsDigits(t) == t \in DigitTokens

\* parseInt on a \d+ token.
ParseInt(t) ==
  CASE t = "0" -> 0 [] t = "1" -> 1 [] t = "2" -> 2 [] t = "3" -> 3

\* The text a token sequence stands for: tokens joined by single blanks.
RECURSIVE Join(_)
Join(ts) ==
  IF ts = <<>> THEN ""
  ELSE IF Len(ts) = 1 THEN ts[1]
  ELSE ts[1] \o " " \o Join(Tail(ts))

\* One token with the characters < > { } removed.
StripToken(t) ==
  CASE t = ">" -> ""
    [] t = "<" -> ""
    [] t = ">=" -> "="
    [] t = "<=" -> "="
    [] OTHER -> t

RECURSIVE TrimLeft(_)
TrimLeft(ts) ==
  IF ts # <<>> /\ ts[1] = "" THEN TrimLeft(Tail(ts)) ELSE ts

RECURSIVE TrimRight(_)
TrimRight(ts) ==
  IF ts # <<>> /\ ts[Len(ts)] = "" THEN TrimRight(SubSeq(ts, 1, Len(ts) - 1)) ELSE ts

\* sanitizeInput: strip < > { } and trim. A token that loses all its
\* characters inside the text stays as an empty token (two blanks in a row).
sanitizeInput(ts) ==
  TrimRight(TrimLeft([i \in 1..Len(ts) |-> StripToken(ts[i])]))

(***************************************************************************)
(* Values                                                                  *)
(***************************************************************************)

STEP_SET == "set"
STEP_IF == "if"
STEP_WHILE == "while"
STEP_WAIT == "wait"
STEP_RETURN == "return"
STEP_BREAK == "break"
STEP_AI_ANALYSIS == "ai_classify"
STEP_UI_RENDER == "ui_render"
STEP_UI_STATE == "ui_state"
STEP_CSS_STYLE == "css_style"
STEP_UI_EVENT == "ui_event"

COMPARE_OPS == {">", "<", ">=", "<=", "===", "!==", "=="}
MATH_WORDS == {"add", "subtract", "multiply", "divide"}

\* { value: v } with typeof v = t, { get: name }, { op: [l, r] }, { classify: .. }
ValueOf(t, v) == [k |-> "value", t |-> t, v |-> v]
GetOf(name) == [k |-> "get", v |-> name]
MathOf(op, l, r) == [k |-> "math", op |-> op, l |-> l, r |-> r]
ClassifyOf(model, in) == [k |-> "classify", model |-> model, input |-> in]
CompareOf(l, op, r) == [k |-> "compare", left |-> l, op |-> op, right |-> r]

\* Transformer.parse: split on single blanks and look at parts[1].
TransformerParse(ts) ==
  IF Len(ts) >= 3 /\ ts[2] \in COMPARE_OPS
    THEN [type |-> "compare", operator |-> ts[2], left |-> ts[1], right |-> ts[3]]
  ELSE IF Len(ts) >= 2 /\ ts[2] \in MATH_WORDS
    THEN [type |-> "math", operator |-> ts[2], left |-> ts[1],
          right |-> IF Len(ts) >= 3 THEN ValueOf("string", ts[3])
                    ELSE ValueOf("undefined", "")]
  ELSE IF Len(ts) >= 1 /\ ts[1] = "predict"
    THEN [type |-> "ml", model |-> IF Len(ts) >= 2 THEN ts[2] ELSE "",
          input |-> Join(SubSeq(ts, 3, Len(ts)))]
  ELSE [type |-> "value", value |-> Join(ts)]

\* inferType on an expression value.
inferType(value) ==
  IF value.k = "value" /\ value.t # "undefined"
    THEN (IF value.t = "number" THEN "number"
          ELSE IF value.t = "boolean" THEN "boolean" ELSE "string")
  ELSE IF value.k = "math" THEN "number"
  ELSE IF value.k = "classify" THEN "tensor"
  ELSE "string"

\* nextId formats the counter as `step${n}`; steps keep n, the text is StepId(n).
StepId(n) == "step" \o ToString(n)

createSetStep(id, target, value) ==
  [id |-> id, type |-> STEP_SET, target |-> target, value |-> value]
\* createIfStep with a slip: the two clause lists change places.
createIfStepSwapped(id, condition, then, elseBranch) ==
  [id |-> id, type |-> STEP_IF, condition |-> condition, then |-> elseBranch, else |-> then]
createIfStep(id, condition, then, elseBranch) ==
  [id |-> id, type |-> STEP_IF, condition |-> condition, then |-> then, else |-> elseBranch]
createWhileStep(id, condition, body) ==
  [id |-> id, type |-> STEP_WHILE, condition |-> condition, body |-> body]
createWaitStep(id, duration) ==
  [id |-> id, type |-> STEP_WAIT, duration |-> duration]
createReturnStep(id, value) ==
  [id |-> id, type |-> STEP_RETURN, value |-> value]
createBreakStep(id) ==
  [id |-> id, type |-> STEP_BREAK]
createAIAnalysisStep(id, model, in, target) ==
  [id |-> id, type |-> STEP_AI_ANALYSIS, model |-> model, input |-> in, target |-> target]
createUIRenderStep(id, component, target) ==
  [id |-> id, type |-> STEP_UI_RENDER, component |-> component, target |-> target]
createUIStateStep(id, state) ==
  [id |-> id, type |-> STEP_UI_STATE, state |-> state]
createCSSStyleStep(id, styles) ==
  [id |-> id, type |-> STEP_CSS_STYLE, styles |-> styles]
createUIEventStep(id, event) ==
  [id |-> id, type |-> STEP_UI_EVENT, event |-> event]

(***************************************************************************)
(* The patterns of commandParsers, matched on the tokens of one sentence   *)
(***************************************************************************)

\* /^macro\s+(\w+)\s+(.+)$/
MatchMacro(ts) == Len(ts) >= 3 /\ ts[1] = "macro" /\ IsWord(ts[2])
\* /^call\s+(\w+)$/
MatchCall(ts) == Len(ts) = 2 /\ ts[1] = "call" /\ IsWord(ts[2])
\* /^(?:repeat|loop)\s+(.+?)\s+(\d+)\s+times$/
MatchRepeat(ts) ==
  /\ Len(ts) >= 4
  /\ ts[1] \in {"repeat", "loop"}
  /\ ts[Len(ts)] = "times"
  /\ IsDigits(ts[Len(ts) - 1])
\* /^if\s+(.+?)\s+then\s+(.+?)(?:\s+else\s+(.+))?$/ : the lazy groups end at
\* the first `then` and at the first `else` that leave text on both sides.
\* A group needs one character at least between its two \s+: one empty
\* token (two blanks in a row) is not enough, two empty tokens are.
ThenPositions(ts) ==
  {i \in 3..(Len(ts) - 1) : ts[i] = "then" /\ Join(SubSeq(ts, 2, i - 1)) # ""}
MatchIf(ts) == Len(ts) >= 4 /\ ts[1] = "if" /\ ThenPositions(ts) # {}
Min(S) == CHOOSE x \in S : \A y \in S : x <= y
ThenPos(ts) == Min(ThenPositions(ts))
ElsePositions(ts) ==
  {e \in (ThenPos(ts) + 2)..(Len(ts) - 1) :
     ts[e] = "else" /\ Join(SubSeq(ts, ThenPos(ts) + 1, e - 1)) # ""}
IfCondition(ts) == SubSeq(ts, 2, ThenPos(ts) - 1)
IfThen(ts) ==
  IF ElsePositions(ts) = {} THEN SubSeq(ts, ThenPos(ts) + 1, Len(ts))
  ELSE SubSeq(ts, ThenPos(ts) + 1, Min(ElsePositions(ts)) - 1)
\* The else group; the empty sequence stands for an unmatched group.
IfElse(ts) ==
  IF ElsePositions(ts) = {} THEN <<>>
  ELSE SubSeq(ts, Min(ElsePositions(ts)) + 1, Len(ts))
\* /^wait\s+(\d+)\s+seconds$/
MatchWait(ts) == Len(ts) = 3 /\ ts[1] = "wait" /\ IsDigits(ts[2]) /\ ts[3] = "seconds"
\* /^(?:set|assign)\s+(\w+)\s+to\s+(.+)$/
MatchSet(ts) ==
  Len(ts) >= 4 /\ ts[1] \in {"set", "assign"} /\ IsWord(ts[2]) /\ ts[3] = "to"
\* /^break$/
MatchBreak(ts) == ts = <<"break">>
\* /^return\s+(.+)$/
MatchReturn(ts) == Len(ts) >= 2 /\ ts[1] = "return"
\* /^analyze\s+(.+?)\s+with\s+(\w+)$/
MatchAnalyze(ts) ==
  Len(ts) >= 4 /\ ts[1] = "analyze" /\ ts[Len(ts) - 1] = "with" /\ IsWord(ts[Len(ts)])
\* /^render\s+(\w+)\s+as\s+(\w+)$/
MatchRender(ts) ==
  Len(ts) = 4 /\ ts[1] = "render" /\ IsWord(ts[2]) /\ ts[3] = "as" /\ IsWord(ts[4])
\* /^state\s+(\w+)\s+as\s+(.+)$/
MatchState(ts) == Len(ts) >= 4 /\ ts[1] = "state" /\ IsWord(ts[2]) /\ ts[3] = "as"
\* /^style\s+(\S+)\s+with\s+(.+)$/
MatchStyle(ts) == Len(ts) >= 4 /\ ts[1] = "style" /\ ts[3] = "with"
\* /^on\s+(\w+)\s+execute\s+(\w+)$/
MatchOn(ts) ==
  Len(ts) = 4 /\ ts[1] = "on" /\ IsWord(ts[2]) /\ ts[3] = "execute" /\ IsWord(ts[4])

\* The verb of the first parser of the registry whose pattern matches.
commandParsers(ts) ==
  IF MatchMacro(ts) THEN "macro"
  ELSE IF MatchCall(ts) THEN "call"
  ELSE IF MatchRepeat(ts) THEN "repeat"
  ELSE IF MatchIf(ts) THEN "if"
  ELSE IF MatchWait(ts) THEN "wait"
  ELSE IF MatchSet(ts) THEN "set"
  ELSE IF MatchBreak(ts) THEN "break"
  ELSE IF MatchReturn(ts) THEN "return"
  ELSE IF MatchAnalyze(ts) THEN "analyze"
  ELSE IF MatchRender(ts) THEN "render"
  ELSE IF MatchState(ts) THEN "state"
  ELSE IF MatchStyle(ts) THEN "style"
  ELSE IF MatchOn(ts) THEN "on"
  ELSE "none"

(***************************************************************************)
(* Promises and the microtask queue                                        *)
(*                                                                         *)
(* A machine m bundles the context of one compile call (sc = stepCounter,  *)
(* tm = typeMap, errs = errors, macros) with its promise table and its     *)
(* queue of jobs. A reaction names the code that runs with a promise's     *)
(* value: the rest of an async function after an await, the resolve        *)
(* function of a promise, or Promise.all's element function.               *)
(***************************************************************************)

Pending == [st |-> "pending", val |-> <<>>, reactions |-> <<>>]

\* A new promise: the id it gets is Len(m.proms) + 1.
NewPromise(m) == [m EXCEPT !.proms = Append(@, Pending)]
LastPromise(m) == Len(m.proms)

\* FulfillPromise: settle p and queue one job per registered reaction.
Fulfill(m, p, v) ==
  LET rs == m.proms[p].reactions
  IN [m EXCEPT !.proms[p] = [st |-> "fulfilled", val |-> v, reactions |-> <<>>],
               !.jobs = @ \o [i \in 1..Len(rs) |-> [reaction |-> rs[i], val |-> v]]]

\* PerformPromiseThen (await p, p.then(f)): a job at once when p is settled.
Then(m, p, r) ==
  IF m.proms[p].st = "fulfilled"
    THEN [m EXCEPT !.jobs = Append(@, [reaction |-> r, val |-> m.proms[p].val])]
    ELSE [m EXCEPT !.proms[p].reactions = Append(@, r)]

\* An async function returns the promise q: its own promise p is resolved
\* with a thenable, which queues a job that will call q.then(resolve p).
ResolveWithPromise(m, p, q) ==
  [m EXCEPT !.jobs = Append(@, [reaction |-> [k |-> "thenable", dst |-> p, src |-> q],
                                val |-> <<>>])]

\* AdvancedParserContext.addError
addError(m, message) == [m EXCEPT !.errs = Append(@, message)]

\* AdvancedParserContext.nextId: the id handed out is m.sc.
nextId(m) == [m EXCEPT !.sc = @ + 1]

\* typeMap[name] = type
SetType(tm, name, type) ==
  [n \in (DOMAIN tm) \cup {name} |-> IF n = name THEN type ELSE tm[n]]

\* AdvancedParserContext.defineMacro
defineMacro(m, name, steps) ==
  [m EXCEPT !.macros = [n \in (DOMAIN @) \cup {name} |-> IF n = name THEN steps ELSE @[n]]]

\* AdvancedParserContext.getMacro
getMacro(m, name) == IF name \in DOMAIN m.macros THEN m.macros[name] ELSE <<>>

(***************************************************************************)
(* The synchronous part of each async function: what runs from the call    *)
(* to the first await. Each returns [m |-> machine, p |-> its promise].    *)
(***************************************************************************)

\* context.parseNL -> transformer.parse: parse settles its promise at once,
\* parseNL returns that promise from an async function.
parseNL(m, ts) ==
  LET m1 == NewPromise(m)
      N  == LastPromise(m1)
      m2 == NewPromise(m1)
      T  == LastPromise(m2)
      m3 == Fulfill(m2, T, TransformerParse(ts))
  IN [m |-> ResolveWithPromise(m3, N, T), p |-> N]

\* parseExpression up to `await context.parseNL(sanitized)`.
parseExpression(m, valueStr) ==
  LET m1 == NewPromise(m)
      X  == LastPromise(m1)
      sanitized == sanitizeInput(valueStr)
      r  == parseNL(m1, sanitized)
  IN [m |-> Then(r.m, r.p, [k |-> "expr", sanitized |-> sanitized, res |-> X]), p |-> X]

\* The rest of parseExpression, with the value of parseNL.
ExpressionOf(nlParse, sanitized) ==
  IF nlParse.type = "math"
    THEN MathOf(nlParse.operator, GetOf(nlParse.left), nlParse.right)
  ELSE IF nlParse.type = "ml"
    THEN ClassifyOf(nlParse.model, nlParse.input)
  ELSE ValueOf("string", Join(sanitized))

ConstFalse == CompareOf(ValueOf("boolean", "false"), "===", ValueOf("boolean", "false"))

\* parseCondition up to `await context.parseNL(sanitized)`.
parseCondition(m, conditionStr) ==
  LET m1 == NewPromise(m)
      C  == LastPromise(m1)
      sanitized == sanitizeInput(conditionStr)
      r  == parseNL(m1, sanitized)
  IN IF sanitized = <<>>
       THEN [m |-> Fulfill(m1, C, ConstFalse), p |-> C]
       ELSE [m |-> Then(r.m, r.p, [k |-> "cond", sanitized |-> sanitized, res |-> C]), p |-> C]

\* The rest of parseCondition. Transformer.parse never answers 'logical'.
ConditionOf(nlParse, sanitized) ==
  IF nlParse.type = "compare"
    THEN CompareOf(GetOf(nlParse.left), nlParse.operator, ValueOf("string", nlParse.right))
    ELSE CompareOf(GetOf(Join(sanitized)), "===", ValueOf("boolean", "true"))

RECURSIVE parseSentence(_, _)

\* commandParsers (macro), up to `await parseSentence(bodyStr, context)`.
parseMacro(m, ts) ==
  LET m1 == NewPromise(m)
      Q  == LastPromise(m1)
      r  == parseSentence(m1, SubSeq(ts, 3, Len(ts)))
  IN [m |-> Then(r.m, r.p, [k |-> "macro", name |-> ts[2], res |-> Q]), p |-> Q]

\* macroSteps.map(step => ({ ...step, id: context.nextId() })): the top-level
\* steps of the template get the ids sc, sc+1, ...; what they hold is shared.
CloneSteps(macroSteps, sc) ==
  [i \in 1..Len(macroSteps) |-> [macroSteps[i] EXCEPT !.id = sc + i - 1]]

\* commandParsers (call): an async function that never awaits.
parseCall(m, ts) ==
  LET m1 == NewPromise(m)
      Q  == LastPromise(m1)
      macroSteps == getMacro(m1, ts[2])
  IN IF macroSteps = <<>>
       THEN [m |-> Fulfill(addError(m1, "Unknown macro: " \o ts[2]), Q, <<>>), p |-> Q]
       ELSE [m |-> Fulfill([m1 EXCEPT !.sc = @ + Len(macroSteps)], Q,
                           CloneSteps(macroSteps, m1.sc)),
             p |-> Q]

LoopCounter(id) == "_loop_counter_" \o StepId(id)

\* commandParsers (repeat), up to `await parseSentence(bodyStr, context)`.
parseRepeat(m, ts) ==
  LET m1 == NewPromise(m)
      Q  == LastPromise(m1)
      id == m1.sc
      m2 == nextId(m1)
      loopCounter == LoopCounter(id)
      init == createSetStep(m2.sc, loopCounter, ValueOf("number", "0"))
      m3 == nextId(m2)
      r  == parseSentence(m3, SubSeq(ts, 2, Len(ts) - 2))
  IN [m |-> Then(r.m, r.p, [k |-> "repeat", id |-> id, init |-> init,
                            times |-> ts[Len(ts) - 1], res |-> Q]),
      p |-> Q]

\* commandParsers (if), up to `await parseCondition(conditionStr, context)`.
parseIf(m, ts) ==
  LET m1 == NewPromise(m)
      Q  == LastPromise(m1)
      r  == parseCondition(m1, IfCondition(ts))
  IN [m |-> Then(r.m, r.p, [k |-> "ifCond", thenStr |-> IfThen(ts),
                            elseStr |-> IfElse(ts), res |-> Q]),
      p |-> Q]

\* commandParsers (set), (return), (analyze), (state): up to
\* `await parseExpression(...)`; tag names the parser that resumes.
parseWithExpression(m, tag, name, valueStr) ==
  LET m1 == NewPromise(m)
      Q  == LastPromise(m1)
      r  == parseExpression(m1, valueStr)
  IN [m |-> Then(r.m, r.p, [k |-> tag, name |-> name, res |-> Q]), p |-> Q]

\* commandParsers (render), (style): async functions that never await.
parseDeclarative(m, step) ==
  LET m1 == NewPromise(m)
      Q  == LastPromise(m1)
  IN [m |-> Fulfill(nextId(m1), Q, <<step>>), p |-> Q]

\* Unrecognized with a slip: the rejected line also takes a step id.
UnrecognizedTakesId(m, P, ts) ==
  Fulfill(nextId(addError(m, "Unrecognized command: \"" \o Join(ts) \o "\"")), P, <<>>)

\* parseSentence when no pattern of the registry matches.
Unrecognized(m, P, ts) ==
  Fulfill(addError(m, "Unrecognized command: \"" \o Join(ts) \o "\""), P, <<>>)

\* parseSentence: the first matching parser is called and its result is
\* returned. A parser that is an async function hands back a promise, so the
\* promise P of parseSentence settles two jobs after that one; a plain
\* function (wait, break, on) or no match settles P at once.
parseSentence(m, ts) ==
  LET m1 == NewPromise(m)
      P  == LastPromise(m1)
      verb == commandParsers(ts)
      rest(i) == SubSeq(ts, i, Len(ts))
      Returned(r) == [m |-> ResolveWithPromise(r.m, P, r.p), p |-> P]
      Plain(step) == [m |-> Fulfill(nextId(m1), P, <<step>>), p |-> P]
  IN CASE verb = "macro" -> Returned(parseMacro(m1, ts))
       [] verb = "call" -> Returned(parseCall(m1, ts))
       [] verb = "repeat" -> Returned(parseRepeat(m1, ts))
       [] verb = "if" -> Returned(parseIf(m1, ts))
       [] verb = "wait" -> Plain(createWaitStep(m1.sc, ParseInt(ts[2])))
       [] verb = "set" -> Returned(parseWithExpression(m1, "set", ts[2], rest(4)))
       [] verb = "break" -> Plain(createBreakStep(m1.sc))
       [] verb = "return" -> Returned(parseWithExpression(m1, "return", "", rest(2)))
       [] verb = "analyze" ->
            Returned(parseWithExpression(m1, "analyze", ts[Len(ts)], SubSeq(ts, 2, Len(ts) - 2)))
       [] verb = "render" ->
            Returned(parseDeclarative(m1, createUIRenderStep(m1.sc, [type |-> ts[2]], ts[4])))
       [] verb = "state" -> Returned(parseWithExpression(m1, "state", ts[2], rest(4)))
       [] verb = "style" ->
            Returned(parseDeclarative(m1,
              createCSSStyleStep(m1.sc, [selector |-> ts[2], properties |-> Join(rest(4))])))
       [] verb = "on" -> Plain(createUIEventStep(m1.sc, [type |-> ts[2], handler |-> ts[4]]))
       [] OTHER -> [m |-> Unrecognized(m1, P, ts), p |-> P]

(***************************************************************************)
(* The step tree                                                           *)
(***************************************************************************)

\* The step lists a step holds (then, else, body), in that order.
Nested(s) ==
  IF s.type = STEP_IF THEN s.then \o s.else
  ELSE IF s.type = STEP_WHILE THEN s.body
  ELSE <<>>

\* Every step of a tree, parents before the steps they hold.
RECURSIVE AllSteps(_)
AllSteps(steps) ==
  IF steps = <<>> THEN <<>>
  ELSE <<steps[1]>> \o AllSteps(Nested(steps[1])) \o AllSteps(Tail(steps))

\* The names n for which "get":"n" occurs in the JSON text of an expression
\* or condition value.
RECURSIVE GetsOfValue(_)
GetsOfValue(v) ==
  CASE v.k = "get" -> {v.v}
    [] v.k = "math" -> GetsOfValue(v.l) \cup GetsOfValue(v.r)
    [] v.k = "compare" -> GetsOfValue(v.left) \cup GetsOfValue(v.right)
    [] OTHER -> {}

\* The same for the fields of one step, the steps it holds left aside.
GetsOfFields(s) ==
  CASE s.type \in {STEP_SET, STEP_RETURN} -> GetsOfValue(s.value)
    [] s.type \in {STEP_IF, STEP_WHILE} -> GetsOfValue(s.condition)
    [] s.type = STEP_AI_ANALYSIS -> GetsOfValue(s.input)
    [] s.type = STEP_UI_STATE -> GetsOfValue(s.state.initial)
    [] OTHER -> {}

\* JSON.stringify(s).includes(`"get":"${v}"`): the text of a step holds the
\* text of the steps nested in it.
JsonHasGet(s, v) ==
  \E i \in 1..Len(AllSteps(<<s>>)) : v \in GetsOfFields(AllSteps(<<s>>)[i])

(***************************************************************************)
(* The validation gate: SCHEMA.properties.steps, as far as the documents   *)
(* generateWorkflow assembles can violate it. All other parts of the       *)
(* document are constants that satisfy the schema; every step carries id,  *)
(* nl_phrase, nl_examples and access_control.                              *)
(***************************************************************************)

\* properties.type.enum, for the types the registry can emit.
SchemaTypeEnum ==
  {"set", "if", "return", "call", "ai_classify", "ui_render", "ui_state", "css_style", "ui_event"}

\* oneOf: the required fields of the branch whose type constant is t.
SchemaRequired(t) ==
  CASE t = "set" -> {"target", "value"}
    [] t = "if" -> {"condition", "then"}
    [] t = "return" -> {"value"}
    [] t = "call" -> {"target", "endpoint"}
    [] t = "ai_classify" -> {"model", "input", "target"}
    [] t = "ui_render" -> {"component", "target"}
    [] t = "ui_state" -> {"state"}
    [] t = "css_style" -> {"styles"}
    [] t = "ui_event" -> {"event"}

\* The violations of one step, its nested steps left aside: the enum of
\* type, and oneOf (exactly one branch must accept the step).
StepViolations(s) ==
  (IF s.type \in SchemaTypeEnum THEN <<>> ELSE <<"must be equal to one of the allowed values">>)
  \o (IF s.type \in SchemaTypeEnum /\ SchemaRequired(s.type) \subseteq DOMAIN s
        THEN <<>> ELSE <<"must match exactly one schema in oneOf">>)

RECURSIVE ViolationsOfAll(_)
ViolationsOfAll(flat) ==
  IF flat = <<>> THEN <<>> ELSE StepViolations(flat[1]) \o ViolationsOfAll(Tail(flat))

\* validate.errors with allErrors: every violation of the document.
\* then, else and body are validated through $ref; steps has minItems 1.
ValidateErrors(steps) ==
  (IF steps = <<>> THEN <<"must NOT have fewer than 1 items">> ELSE <<>>)
  \o ViolationsOfAll(AllSteps(steps))

(***************************************************************************)
(* renderWorkflowAsMermaid. The graph is kept as its node lines and edge   *)
(* lines; a node line is a node id with a label, an edge line has an empty *)
(* tag (a plain edge) or Then, Else, Body. Labels leave out the JSON text  *)
(* of values and conditions.                                               *)
(***************************************************************************)

NodeLabel(step) ==
  CASE step.type = STEP_SET -> "Set " \o step.target
    [] step.type = STEP_IF -> "If"
    [] step.type = STEP_WHILE -> "While"
    [] step.type = STEP_WAIT -> "Wait " \o ToString(step.duration) \o "s"
    [] step.type = STEP_RETURN -> "Return"
    [] step.type = STEP_BREAK -> "Break"
    [] step.type = STEP_AI_ANALYSIS -> "Analyze with " \o step.model \o " -> " \o step.target
    [] step.type = STEP_UI_RENDER -> "Render " \o step.component.type \o " -> " \o step.target
    [] step.type = STEP_UI_STATE -> "State " \o step.state.name
    [] step.type = STEP_CSS_STYLE -> "Style " \o step.styles.selector
    [] step.type = STEP_UI_EVENT -> "On " \o step.event.type \o " -> " \o step.event.handler
    [] OTHER -> "Unknown Step " \o StepId(step.id)

PushEdge(g, from, to, tag) ==
  [g EXCEPT !.edges = Append(@, [from |-> from, to |-> to, tag |-> tag])]

\* renderSteps: nodes, edges and prevNode are shared by all nested calls.
RECURSIVE renderSteps(_, _, _)
renderSteps(steps, prefix, g) ==
  IF steps = <<>> THEN g
  ELSE
    LET step == steps[1]
        nodeId == "STEP" \o StepId(step.id) \o prefix
        gThen == renderSteps(step.then, prefix \o "_THEN",
                             PushEdge(g, nodeId, nodeId \o "_THEN", "Then"))
        gIf == IF step.else # <<>>
                 THEN renderSteps(step.else, prefix \o "_ELSE",
                                  PushEdge(gThen, nodeId, nodeId \o "_ELSE", "Else"))
                 ELSE gThen
        gWhile == renderSteps(step.body, prefix \o "_BODY",
                              PushEdge(g, nodeId, nodeId \o "_BODY", "Body"))
        g1 == IF step.type = STEP_IF THEN gIf
              ELSE IF step.type = STEP_WHILE THEN gWhile
              ELSE g
        g2 == [nodes |-> Append(g1.nodes, [id |-> nodeId, label |-> NodeLabel(step)]),
               edges |-> Append(g1.edges, [from |-> g1.prevNode, to |-> nodeId, tag |-> ""]),
               prevNode |-> nodeId]
    IN renderSteps(Tail(steps), prefix, g2)

\* 'graph TD\nA[Invalid Workflow] --> B[No Steps]'
InvalidWorkflow ==
  [nodes |-> <<[id |-> "A", label |-> "Invalid Workflow"], [id |-> "B", label |-> "No Steps"]>>,
   edges |-> <<[from |-> "A", to |-> "B", tag |-> ""]>>]

\* The graph the closing lines make of what renderSteps left.
DiagramOf(g) ==
  [nodes |-> g.nodes,
   edges |-> Append(g.edges, [from |-> g.prevNode, to |-> "END", tag |-> ""])]

\* renderWorkflowAsMermaid with a slip: prevNode is declared outside of the
\* function, a call starts from the node the previous call ended on.
renderFromLastNode(workflow) ==
  IF workflow = Null THEN InvalidWorkflow
  ELSE DiagramOf(renderSteps(workflow.steps, "",
                             [nodes |-> <<[id |-> "START", label |-> "Start"]>>,
                              edges |-> <<>>,
                              prevNode |-> IF renders = <<>> THEN "START"
                                           ELSE renders[Len(renders)].edges[
                                                  Len(renders[Len(renders)].edges)].from]))

\* nodes, edges and prevNode are made anew by every call.
renderWorkflowAsMermaid(workflow) ==
  IF workflow = Null THEN InvalidWorkflow
  ELSE DiagramOf(renderSteps(workflow.steps, "",
                             [nodes |-> <<[id |-> "START", label |-> "Start"]>>,
                              edges |-> <<>>, prevNode |-> "START"]))

(***************************************************************************)
(* generateWorkflow after the dispatch: the manifest, the document, the    *)
(* diagram and the validation gate.                                        *)
(***************************************************************************)

RECURSIVE Flat(_)
Flat(lists) == IF lists = <<>> THEN <<>> ELSE lists[1] \o Flat(Tail(lists))

\* inputs: the keys of typeMap whose "get" text occurs in a top-level step.
InputsOf(steps, tm) ==
  [n \in {v \in DOMAIN tm : \E i \in 1..Len(steps) : JsonHasGet(steps[i], v)}
     |-> [type |-> tm[n], required |-> TRUE]]

\* outputs: the keys of typeMap that a step of the list `steps` sets.
OutputsOf(steps, tm) ==
  [n \in {v \in DOMAIN tm :
            \E i \in 1..Len(steps) : steps[i].type = STEP_SET /\ steps[i].target = v}
     |-> [type |-> tm[n]]]

WorkflowOf(steps, tm) ==
  [steps |-> steps, inputs |-> InputsOf(steps, tm), outputs |-> OutputsOf(steps, tm)]

\* PushValidationErrors with a slip: only the first violation is reported.
PushFirstValidationError(errs, validateErrors) ==
  Append(errs, "Validation error: " \o validateErrors[1])

\* context.errors.push(...validate.errors.map(e => `Validation error: ${e.message}`))
PushValidationErrors(errs, validateErrors) ==
  errs \o [i \in 1..Len(validateErrors) |-> "Validation error: " \o validateErrors[i]]

\* What generateWorkflow returns for the dispatched steps.
ResultOf(steps, tm, errs) ==
  LET workflow == WorkflowOf(steps, tm)
      mermaidDiagram == renderWorkflowAsMermaid(workflow)
      validateErrors == ValidateErrors(steps)
  IN IF validateErrors # <<>>
       THEN [workflow |-> Null, errors |-> PushValidationErrors(errs, validateErrors),
             mermaidDiagram |-> mermaidDiagram]
       ELSE [workflow |-> workflow, errors |-> errs, mermaidDiagram |-> mermaidDiagram]

\* AllResolveElement with a slip: values are kept in the order they arrive.
AllResolveElementInArrivalOrder(vals, left, index, v) ==
  [vals EXCEPT ![Len(vals) - left + 1] = v]

\* Promise.all's element function: the value goes to the slot of its promise.
AllResolveElement(vals, left, index, v) == [vals EXCEPT ![index] = v]

(***************************************************************************)
(* Inputs: the raw lines a compile call may be given                       *)
(***************************************************************************)

SetX0 == <<"set", "x", "to", "0">>
SetXInc == <<"set", "x", "to", "x", "+", "1">>
SetYAdd == <<"set", "y", "to", "x", "add", "1">>
WaitTwo == <<"wait", "2", "seconds">>
CallInc == <<"call", "inc">>
IfXEq == <<"if", "x", "==", "2", "then">>

Lines ==
  { <<>>,
    SetX0,
    SetYAdd,
    <<"return", "x">>,
    WaitTwo,
    <<"break">>,
    CallInc,
    <<"frobnicate", "the", "whatsit">>,
    <<"repeat">> \o SetXInc \o <<"3", "times">>,
    <<"macro", "inc">> \o SetXInc,
    <<"macro", "inc">> \o WaitTwo,
    <<"macro", "inc", "repeat">> \o WaitTwo \o <<"2", "times">>,
    <<"macro", "inc", "frobnicate">>,
    <<"if", "x", ">", "2", "then", "set", "y", "to", "1", "else", "set", "y", "to", "0">>,
    IfXEq \o CallInc,
    IfXEq \o CallInc \o <<"else">> \o CallInc,
    IfXEq \o IfXEq \o CallInc,
    IfXEq \o IfXEq \o CallInc \o <<"else">> \o CallInc,
    IfXEq \o <<"set", "y", "to", "1">>,
    IfXEq \o <<"break", "else">> \o CallInc,
    <<"if", ">", "then">> \o CallInc,
    <<"on", "click", "execute", "handler">>,
    <<"render", "box", "as", "main">>,
    <<"style", "body", "with", "red">>,
    <<"state", "n", "as", "0">>,
    <<"analyze", "signal", "with", "neural_net">> }

\* The input texts: 1..MaxLines raw lines joined by '\n'.
RECURSIVE Texts(_)
Texts(n) ==
  IF n = 0 THEN {<<>>}
  ELSE {Append(t, l) : t \in Texts(n - 1), l \in Lines} \cup (IF n = 1 THEN {} ELSE Texts(n - 1))

\* A macro whose body holds a nested step, and a sentence that calls it late
\* enough (three conditions are awaited first) for the macro to be defined.
MacroIfSet == <<"macro", "inc">> \o IfXEq \o <<"set", "y", "to", "1">>
DeepCall == IfXEq \o IfXEq \o IfXEq \o CallInc

\* Texts in which two sentences call the macro of the first.
DeepTexts == {<<MacroIfSet, a, b>> : a, b \in {DeepCall, IfXEq \o CallInc}}

\* Texts whose macro calls itself in its body.
MacroCallsSelf == <<"macro", "inc">> \o CallInc
SelfCallTexts == {<<MacroCallsSelf>>, <<MacroCallsSelf, CallInc>>, <<MacroCallsSelf, DeepCall>>}

Inputs == (Texts(MaxLines) \ {<<>>}) \cup DeepTexts \cup SelfCallTexts

\* !input: the empty string is the text made of one empty line.
IsEmptyString(text) == text = << <<>> >>

\* input.split('\n').map(s => s.trim()).filter(Boolean)
SentencesOf(text) == SelectSeq(text, LAMBDA l : l # <<>>)

\* No second call, no call of render, a new logger, a new pool.
AsideInit ==
  /\ other = Null
  /\ alone = Null
  /\ renders = <<>>
  /\ logger = [logs |-> <<>>, step |-> 0]
  /\ awaiting = {}
  /\ entries = EmptyMap
  /\ now = 0

Machine ==
  [sc |-> stepCounter, tm |-> typeMap, errs |-> errors, macros |-> macros,
   proms |-> promises, jobs |-> jobs]

Install(m) ==
  /\ stepCounter' = m.sc
  /\ typeMap' = m.tm
  /\ errors' = m.errs
  /\ macros' = m.macros
  /\ promises' = m.proms
  /\ jobs' = m.jobs

\* new AdvancedParserContext(), before generateWorkflow runs.
Init ==
  /\ input \in Inputs
  /\ pc = "start"
  /\ cursor = 1
  /\ stepCounter = 1
  /\ typeMap = EmptyMap
  /\ errors = <<>>
  /\ macros = EmptyMap
  /\ promises = <<>>
  /\ jobs = <<>>
  /\ linePromises = <<>>
  /\ allPromise = 0
  /\ allValues = <<>>
  /\ allLeft = 0
  /\ result = NoResult
  /\ AsideInit

(***************************************************************************)
(* generateWorkflow, from the call to the await of Promise.all             *)
(***************************************************************************)

\* The guard on input, then the context is in place for the map.
Start ==
  /\ pc = "start"
  /\ IF IsEmptyString(input)
       THEN /\ result' = [workflow |-> Null,
                          errors |-> <<"Input must be a non-empty string">>,
                          mermaidDiagram |-> Null]
            /\ pc' = "done"
       ELSE /\ result' = result
            /\ pc' = "dispatch"
  /\ UNCHANGED <<input, cursor, stepCounter, typeMap, errors, macros, promises, jobs,
                 linePromises, allPromise, allValues, allLeft>>
  /\ UNCHANGED Aside

\* .map(sentence => parseSentence(sentence, context)) for one sentence: the
\* call runs to its first await and the map goes on to the next sentence.
DispatchLine ==
  /\ pc = "dispatch"
  /\ cursor <= Len(SentencesOf(input))
  /\ \E r \in {parseSentence(Machine, SentencesOf(input)[cursor])} :
       /\ Install(r.m)
       /\ linePromises' = Append(linePromises, r.p)
  /\ cursor' = cursor + 1
  /\ UNCHANGED <<input, pc, allPromise, allValues, allLeft, result>>
  /\ UNCHANGED Aside

RECURSIVE ThenEach(_, _, _)
ThenEach(m, ps, i) ==
  IF i > Len(ps) THEN m
  ELSE ThenEach(Then(m, ps[i], [k |-> "all", index |-> i]), ps, i + 1)

\* AwaitAll with a slip: with no element the promise is never settled.
AwaitAllOfNoneHangs ==
  /\ pc = "dispatch"
  /\ cursor > Len(SentencesOf(input))
  /\ LET m1 == NewPromise(Machine)
         A  == LastPromise(m1)
         m2 == ThenEach(m1, linePromises, 1)
     IN /\ Install(Then(m2, A, [k |-> "main"]))
        /\ allPromise' = A
  /\ allValues' = [i \in 1..Len(linePromises) |-> <<>>]
  /\ allLeft' = Len(linePromises)
  /\ pc' = "run"
  /\ UNCHANGED <<input, cursor, linePromises, result>>
  /\ UNCHANGED Aside

\* await Promise.all(linePromises): every element gets the element function
\* as its reaction; with no element the promise is settled at once.
AwaitAll ==
  /\ pc = "dispatch"
  /\ cursor > Len(SentencesOf(input))
  /\ LET m1 == NewPromise(Machine)
         A  == LastPromise(m1)
         m2 == ThenEach(m1, linePromises, 1)
         m3 == IF linePromises = <<>> THEN Fulfill(m2, A, <<>>) ELSE m2
     IN /\ Install(Then(m3, A, [k |-> "main"]))
        /\ allPromise' = A
  /\ allValues' = [i \in 1..Len(linePromises) |-> <<>>]
  /\ allLeft' = Len(linePromises)
  /\ pc' = "run"
  /\ UNCHANGED <<input, cursor, linePromises, result>>
  /\ UNCHANGED Aside

(***************************************************************************)
(* The jobs of the microtask queue, one action per kind of job             *)
(***************************************************************************)

Job == Head(jobs)
Popped == [Machine EXCEPT !.jobs = Tail(jobs)]
Runs(kind) == pc = "run" /\ jobs # <<>> /\ Job.reaction.k = kind
Frame == <<input, pc, cursor, linePromises, allPromise, allValues, allLeft, result, Aside>>

\* NewPromiseResolveThenableJob: src.then(resolve dst).
RunThenable ==
  /\ Runs("thenable")
  /\ Install(Then(Popped, Job.reaction.src, [k |-> "resolve", dst |-> Job.reaction.dst]))
  /\ UNCHANGED Frame

\* The resolve function of dst, called with the value of the returned promise.
RunResolve ==
  /\ Runs("resolve")
  /\ Install(Fulfill(Popped, Job.reaction.dst, Job.val))
  /\ UNCHANGED Frame

\* parseExpression after its await.
ResumeParseExpression ==
  /\ Runs("expr")
  /\ Install(Fulfill(Popped, Job.reaction.res, ExpressionOf(Job.val, Job.reaction.sanitized)))
  /\ UNCHANGED Frame

\* parseCondition after its await.
ResumeParseCondition ==
  /\ Runs("cond")
  /\ Install(Fulfill(Popped, Job.reaction.res, ConditionOf(Job.val, Job.reaction.sanitized)))
  /\ UNCHANGED Frame

\* commandParsers (set) after `await parseExpression(rawValue, context)`.
ResumeSet ==
  /\ Runs("set")
  /\ LET m1 == [Popped EXCEPT !.tm = SetType(@, Job.reaction.name, inferType(Job.val))]
         step == createSetStep(m1.sc, Job.reaction.name, Job.val)
     IN Install(Fulfill(nextId(m1), Job.reaction.res, <<step>>))
  /\ UNCHANGED Frame

\* A parser that emits one step around the value of parseExpression.
EmitLeaf(step) ==
  /\ Install(Fulfill(nextId(Popped), Job.reaction.res, <<step>>))
  /\ UNCHANGED Frame

\* commandParsers (return) after `await parseExpression(valueStr, context)`.
ResumeReturn ==
  /\ Runs("return")
  /\ EmitLeaf(createReturnStep(stepCounter, Job.val))

\* commandParsers (analyze) after `await parseExpression(input, context)`.
ResumeAnalyze ==
  /\ Runs("analyze")
  /\ EmitLeaf(createAIAnalysisStep(stepCounter, Job.reaction.name, Job.val,
                                   "result_" \o Job.reaction.name))

\* commandParsers (state) after `await parseExpression(initialStr, context)`.
ResumeState ==
  /\ Runs("state")
  /\ EmitLeaf(createUIStateStep(stepCounter, [name |-> Job.reaction.name, initial |-> Job.val]))

\* ResumeMacro with a slip: the macro's sentence returns the body's steps.
ResumeMacroEmitsBody ==
  /\ Runs("macro")
  /\ Install(Fulfill(defineMacro(Popped, Job.reaction.name, Job.val), Job.reaction.res, Job.val))
  /\ UNCHANGED Frame

\* commandParsers (macro) after `await parseSentence(bodyStr, context)`.
ResumeMacro ==
  /\ Runs("macro")
  /\ Install(Fulfill(defineMacro(Popped, Job.reaction.name, Job.val), Job.reaction.res, <<>>))
  /\ UNCHANGED Frame

\* ResumeRepeat with a slip: the increment is put before the body's steps.
ResumeRepeatIncFirst ==
  /\ Runs("repeat")
  /\ LET id == Job.reaction.id
         loopCounter == LoopCounter(id)
         inc == createSetStep(stepCounter, loopCounter,
                              MathOf("add", GetOf(loopCounter), ValueOf("number", "1")))
         loop == createWhileStep(id,
                   CompareOf(GetOf(loopCounter), "<", ValueOf("number", Job.reaction.times)),
                   <<inc>> \o Job.val)
         m1 == [nextId(Popped) EXCEPT !.tm = SetType(@, loopCounter, "number")]
     IN Install(Fulfill(m1, Job.reaction.res, <<Job.reaction.init, loop>>))
  /\ UNCHANGED Frame

\* commandParsers (repeat) after `await parseSentence(bodyStr, context)`.
ResumeRepeat ==
  /\ Runs("repeat")
  /\ LET id == Job.reaction.id
         loopCounter == LoopCounter(id)
         inc == createSetStep(stepCounter, loopCounter,
                              MathOf("add", GetOf(loopCounter), ValueOf("number", "1")))
         loop == createWhileStep(id,
                   CompareOf(GetOf(loopCounter), "<", ValueOf("number", Job.reaction.times)),
                   Job.val \o <<inc>>)
         m1 == [nextId(Popped) EXCEPT !.tm = SetType(@, loopCounter, "number")]
     IN Install(Fulfill(m1, Job.reaction.res, <<Job.reaction.init, loop>>))
  /\ UNCHANGED Frame

\* commandParsers (if) after `await parseCondition(conditionStr, context)`:
\* the then clause is dispatched and awaited.
ResumeIfCond ==
  /\ Runs("ifCond")
  /\ \E r \in {parseSentence(Popped, Job.reaction.thenStr)} :
       Install(Then(r.m, r.p, [k |-> "ifThen", condition |-> Job.val,
                               elseStr |-> Job.reaction.elseStr, res |-> Job.reaction.res]))
  /\ UNCHANGED Frame

\* commandParsers (if) after `await parseSentence(thenStr, context)`: an else
\* clause is dispatched and awaited; without one the If step is created.
ResumeIfThen ==
  /\ Runs("ifThen")
  /\ IF Job.reaction.elseStr # <<>>
       THEN \E r \in {parseSentence(Popped, Job.reaction.elseStr)} :
              Install(Then(r.m, r.p, [k |-> "ifElse", condition |-> Job.reaction.condition,
                                      thenSteps |-> Job.val, res |-> Job.reaction.res]))
       ELSE Install(Fulfill(nextId(Popped), Job.reaction.res,
                            <<createIfStep(stepCounter, Job.reaction.condition, Job.val, <<>>)>>))
  /\ UNCHANGED Frame

\* commandParsers (if) after `await parseSentence(elseStr, context)`.
ResumeIfElse ==
  /\ Runs("ifElse")
  /\ Install(Fulfill(nextId(Popped), Job.reaction.res,
                     <<createIfStep(stepCounter, Job.reaction.condition,
                                    Job.reaction.thenSteps, Job.val)>>))
  /\ UNCHANGED Frame

\* Promise.all's element function; the last element settles the promise
\* with the values.
ResolveElement ==
  /\ Runs("all")
  /\ LET vals == AllResolveElement(allValues, allLeft, Job.reaction.index, Job.val)
     IN /\ allValues' = vals
        /\ allLeft' = allLeft - 1
        /\ Install(IF allLeft = 1 THEN Fulfill(Popped, allPromise, vals) ELSE Popped)
  /\ UNCHANGED <<input, pc, cursor, linePromises, allPromise, result>>
  /\ UNCHANGED Aside

\* generateWorkflow after `await Promise.all(...)`: .flat(), the document,
\* the diagram, the validation gate, the return.
Assemble ==
  /\ Runs("main")
  /\ \E rv \in {ResultOf(Flat(Job.val), typeMap, errors)} :
       /\ result' = rv
       /\ errors' = rv.errors
  /\ jobs' = Tail(jobs)
  /\ pc' = "done"
  /\ UNCHANGED <<input, cursor, stepCounter, typeMap, macros, promises,
                 linePromises, allPromise, allValues, allLeft>>
  /\ UNCHANGED Aside

Next ==
  \/ Start
  \/ DispatchLine
  \/ AwaitAll
  \/ RunThenable
  \/ RunResolve
  \/ ResumeParseExpression
  \/ ResumeParseCondition
  \/ ResumeSet
  \/ ResumeReturn
  \/ ResumeAnalyze
  \/ ResumeState
  \/ ResumeMacro
  \/ ResumeRepeat
  \/ ResumeIfCond
  \/ ResumeIfThen
  \/ ResumeIfElse
  \/ ResolveElement
  \/ Assemble

Spec == Init /\ [][Next]_vars

\* The call can go on: it has not reached its await, or a job is queued.
CanStep == pc \in {"start", "dispatch"} \/ (pc = "run" /\ jobs # <<>>)

(***************************************************************************)
(* Properties                                                              *)
(***************************************************************************)

\* generateWorkflow has returned from a compilation (not from its input guard).
Compiled == pc = "done" /\ ~IsEmptyString(input)

\* The step list of sentence i: the value of the promise parseSentence returned.
LineSteps(i) == promises[linePromises[i]].val

\* The step list generateWorkflow assembled: (await Promise.all(...)).flat().
TopSteps == Flat(promises[allPromise].val)

\* The step tree of the compilation, flattened.
TreeSteps == AllSteps(TopSteps)

Accepted == Compiled /\ result.workflow # Null

\* C1: within one compile call, no two steps of the step tree (top-level or
\* nested in then/else/body, macro expansions included) carry the same id.
C1_StepIdsUnique ==
  Compiled =>
    \A i, j \in 1..Len(TreeSteps) : i # j => TreeSteps[i].id # TreeSteps[j].id

\* Sentence i is `macro name BODY` and its body yielded at least one step.
DefinesMacro(i, name) ==
  /\ commandParsers(SentencesOf(input)[i]) = "macro"
  /\ SentencesOf(input)[i][2] = name
  /\ name \in DOMAIN macros
  /\ macros[name] # <<>>

\* C2: when a `macro NAME BODY` line whose body yields a step comes before
\* a `call NAME` line of the same input, the call expands to the macro's
\* steps and no 'Unknown macro' diagnostic is recorded.
C2_CallAfterMacroExpands ==
  Compiled =>
    \A i, j \in 1..Len(SentencesOf(input)) :
      (/\ i < j
       /\ commandParsers(SentencesOf(input)[j]) = "call"
       /\ DefinesMacro(i, SentencesOf(input)[j][2]))
      => /\ Len(LineSteps(j)) = Len(macros[SentencesOf(input)[j][2]])
         /\ \A e \in 1..Len(errors) : errors[e] # "Unknown macro: " \o SentencesOf(input)[j][2]

\* C3: the ids of the top-level steps, in output order, have strictly
\* increasing numeric suffixes.
C3_TopLevelIdsIncrease ==
  Compiled =>
    \A i, j \in 1..Len(TopSteps) : i < j => TopSteps[i].id < TopSteps[j].id

\* C4: the top-level step list is the concatenation, in input line order, of
\* the step lists of the lines, whatever order the dispatches complete in.
C4_StepsInLineOrder ==
  Compiled =>
    /\ Len(linePromises) = Len(SentencesOf(input))
    /\ TopSteps = Flat([i \in 1..Len(linePromises) |-> LineSteps(i)])
    /\ Accepted => result.workflow.steps = TopSteps

\* Two lines each gave steps, the second line's step was created first, and
\* the accepted workflow lists the first line's steps first.
C4_Witness ==
  /\ Accepted
  /\ Len(linePromises) = 2
  /\ LineSteps(1) # <<>>
  /\ LineSteps(2) # <<>>
  /\ LineSteps(1)[1].id > LineSteps(2)[1].id
  /\ result.workflow.steps = LineSteps(1) \o LineSteps(2)

\* The map is about to dispatch a line that no pattern of the registry matches.
AtUnrecognizedLine ==
  /\ pc = "dispatch"
  /\ cursor <= Len(SentencesOf(input))
  /\ commandParsers(SentencesOf(input)[cursor]) = "none"

\* C5: a line that matches no dispatch rule appends exactly one
\* 'Unrecognized command' diagnostic, contributes zero steps, leaves the
\* step-id counter, type map and macro table unchanged, and the dispatch
\* goes on with the next line; every line of the input is dispatched.
C5_UnrecognizedLine ==
  /\ [][AtUnrecognizedLine =>
          /\ errors' = Append(errors, "Unrecognized command: \""
                                        \o Join(SentencesOf(input)[cursor]) \o "\"")
          /\ Len(linePromises') = cursor
          /\ promises'[linePromises'[cursor]] = [st |-> "fulfilled", val |-> <<>>, reactions |-> <<>>]
          /\ UNCHANGED <<stepCounter, typeMap, macros>>
          /\ pc' = "dispatch"
          /\ cursor' = cursor + 1]_vars
  /\ [](Compiled => Len(linePromises) = Len(SentencesOf(input)))

\* An unrecognized first line left its diagnostic and nothing else, and the
\* line after it was dispatched and gave a step.
C5_Witness ==
  /\ Compiled
  /\ Len(linePromises) = 2
  /\ commandParsers(SentencesOf(input)[1]) = "none"
  /\ LineSteps(1) = <<>>
  /\ errors[1] = "Unrecognized command: \"" \o Join(SentencesOf(input)[1]) \o "\""
  /\ Len(LineSteps(2)) = 1
  /\ LineSteps(2)[1].id = 1

\* C6: whenever compile returns workflow = null it returns no graph
\* description.
C6_NoDiagramWithoutWorkflow ==
  (pc = "done" /\ result.workflow = Null) => result.mermaidDiagram = Null

\* C7: when the assembled document violates the schema, compile returns
\* workflow = null and an error list made of all parse-time diagnostics in
\* their original order followed by one entry for every violation.
C7_RejectionReportsEverything ==
  [][(Runs("main") /\ ValidateErrors(Flat(Job.val)) # <<>>) =>
       LET violations == ValidateErrors(Flat(Job.val))
       IN /\ result'.workflow = Null
          /\ Len(result'.errors) = Len(errors) + Len(violations)
          /\ SubSeq(result'.errors, 1, Len(errors)) = errors
          /\ \A i \in 1..Len(violations) :
               result'.errors[Len(errors) + i] = "Validation error: " \o violations[i]]_vars

\* A rejected document with two different parse-time diagnostics, in the
\* order of their lines, followed by the entries of two violations.
C7_Witness ==
  /\ Compiled
  /\ result.workflow = Null
  /\ Len(ValidateErrors(TopSteps)) = 2
  /\ Len(result.errors) = 4
  /\ result.errors[1] = "Unrecognized command: \"frobnicate the whatsit\""
  /\ result.errors[2] = "Unknown macro: inc"
  /\ result.errors[3] = "Validation error: " \o ValidateErrors(TopSteps)[1]
  /\ result.errors[4] = "Validation error: " \o ValidateErrors(TopSteps)[2]

\* A well-formed set, repeat or return command (a repeat around one).
RECURSIVE IsSetRepeatReturn(_)
IsSetRepeatReturn(ts) ==
  \/ commandParsers(ts) \in {"set", "return"}
  \/ /\ commandParsers(ts) = "repeat"
     /\ IsSetRepeatReturn(SubSeq(ts, 2, Len(ts) - 2))

\* C8: an input whose every line is a well-formed set, repeat or return
\* command compiles to a non-null workflow with no validation errors.
C8_SetRepeatReturnAccepted ==
  (/\ Compiled
   /\ SentencesOf(input) # <<>>
   /\ \A i \in 1..Len(SentencesOf(input)) : IsSetRepeatReturn(SentencesOf(input)[i]))
  => /\ result.workflow # Null
     /\ ValidateErrors(TopSteps) = <<>>

\* The targets of the Set steps of the step tree.
SetTargets == {TreeSteps[i].target : i \in {k \in 1..Len(TreeSteps) : TreeSteps[k].type = STEP_SET}}

\* The names referenced ({ get: name }) anywhere in the step tree.
Referenced == UNION {GetsOfFields(TreeSteps[i]) : i \in 1..Len(TreeSteps)}

\* C9: outputs holds exactly the variables that are the target of a Set
\* step anywhere in the step tree, nested Set steps included.
C9_OutputsAreSetTargets ==
  Accepted => DOMAIN result.workflow.outputs = SetTargets

\* C10: inputs holds every variable referenced anywhere in the step tree; a
\* referenced variable never assigned by a Set has type string there.
C10_InputsAreReferences ==
  Accepted =>
    \A v \in Referenced :
      /\ v \in DOMAIN result.workflow.inputs
      /\ v \notin SetTargets => result.workflow.inputs[v].type = "string"

(***************************************************************************)
(* src/parser.js: the synchronous parser. Its functions carry the prefix   *)
(* parser_ where src/framework.js has a function of the same name.         *)
(***************************************************************************)

\* sanitizeInput of parser.js: strip < > { } and trim.
parser_sanitizeInput(ts) ==
  TrimRight(TrimLeft([i \in 1..Len(ts) |-> StripToken(ts[i])]))

\* The operator characters of the tokenizer, [+\-*/()].
ExprSymbols == {"+", "-", "*", "/", "(", ")"}

\* What /\w+|\d+\.\d+|\d+|[+\-*/()]/g finds in one blank-separated word:
\* \w+ is tried first, so it takes the digits before a decimal point and
\* the point is skipped; characters no alternative matches are skipped.
TokensOfWord(w) ==
  CASE w = "2.5" -> <<"2", "5">>
    [] w \in ExprSymbols -> <<w>>
    [] w \in NonWordTokens -> <<>>
    [] OTHER -> <<w>>

\* sanitized.match(/\w+|\d+\.\d+|\d+|[+\-*/()]/g) || []
Tokenize(ts) == Flat([i \in 1..Len(ts) |-> TokensOfWord(ts[i])])

\* The state of one parseExpression call: the expression a parse function
\* returned (Null for null), the token cursor (from 1) and parenCount.
Parsed(e, index, parenCount) == [e |-> e, index |-> index, parenCount |-> parenCount]

\* The operators the loop of parseMulDiv consumes, and those of parseAddSub.
MulDivTokens == {"*", "/"}
AddSubTokens == {"+", "-"}

\* OPERATORS.MATH
MathName(token) ==
  CASE token = "+" -> "add" [] token = "-" -> "subtract"
    [] token = "*" -> "multiply" [] token = "/" -> "divide"

RECURSIVE parsePrimary(_, _, _)
RECURSIVE parseMulDivLoop(_, _)
RECURSIVE parseAddSubLoop(_, _)

parseMulDiv(tokens, index, parenCount) ==
  parseMulDivLoop(tokens, parsePrimary(tokens, index, parenCount))

\* parseAddSub once its call of parseMulDiv has answered `left`.
AddSubFrom(tokens, left) ==
  IF left.e = Null THEN left ELSE parseAddSubLoop(tokens, left)

parseAddSub(tokens, index, parenCount) ==
  AddSubFrom(tokens, parseMulDiv(tokens, index, parenCount))

parseExpressionTokens(tokens, index, parenCount) == parseAddSub(tokens, index, parenCount)

\* The '(' branch of parsePrimary once parseExpressionTokens has answered
\* `expr`: the group is closed by the next token, or the answer is null.
CloseGroup(tokens, expr) ==
  IF expr.index <= Len(tokens) /\ tokens[expr.index] = ")"
    THEN Parsed(expr.e, expr.index + 1, expr.parenCount - 1)
    ELSE Parsed(Null, expr.index, expr.parenCount)

\* parsePrimary after `const token = tokens[index++]` and the count of the
\* parenthesis: \w+ is tested before the numeral.
PrimaryOf(tokens, token, index, count) ==
  IF count < 0 THEN Parsed(Null, index, count)
  ELSE IF IsWord(token) THEN Parsed(GetOf(token), index, count)
  ELSE IF IsDigits(token) THEN Parsed(ValueOf("number", token), index, count)
  ELSE IF token = "(" THEN CloseGroup(tokens, parseExpressionTokens(tokens, index, count))
  ELSE Parsed(Null, index, count)

parsePrimary(tokens, index, parenCount) ==
  IF index > Len(tokens) THEN Parsed(Null, index, parenCount)
  ELSE PrimaryOf(tokens, tokens[index], index + 1,
                 IF tokens[index] = "(" THEN parenCount + 1
                 ELSE IF tokens[index] = ")" THEN parenCount - 1 ELSE parenCount)

\* One turn of a while loop once the right operand is parsed: null when
\* there is no right operand, else the node { [op]: [left, right] }.
Combine(token, left, right) ==
  IF right.e = Null THEN right
  ELSE Parsed(MathOf(MathName(token), left.e, right.e), right.index, right.parenCount)

\* The while loop of parseMulDiv: left may be null when the loop is entered.
MulDivTurn(tokens, next) ==
  IF next.e = Null THEN next ELSE parseMulDivLoop(tokens, next)

parseMulDivLoop(tokens, left) ==
  IF left.index <= Len(tokens) /\ tokens[left.index] \in MulDivTokens
    THEN MulDivTurn(tokens, Combine(tokens[left.index], left,
                                    parsePrimary(tokens, left.index + 1, left.parenCount)))
    ELSE left

\* The while loop of parseAddSub.
AddSubTurn(tokens, next) ==
  IF next.e = Null THEN next ELSE parseAddSubLoop(tokens, next)

parseAddSubLoop(tokens, left) ==
  IF left.index <= Len(tokens) /\ tokens[left.index] \in AddSubTokens
    THEN AddSubTurn(tokens, Combine(tokens[left.index], left,
                                    parseMulDiv(tokens, left.index + 1, left.parenCount)))
    ELSE left

\* The end of parseExpression: the tree, or null when tokens are left over
\* or parenCount is not back at 0.
WholeOf(tokens, r) ==
  IF r.index = Len(tokens) + 1 /\ r.parenCount = 0 THEN r.e ELSE Null

ExpressionOfTokens(tokens) == WholeOf(tokens, parseExpressionTokens(tokens, 1, 0))

\* parseExpression of parser.js.
parser_parseExpression(ts) == ExpressionOfTokens(Tokenize(parser_sanitizeInput(ts)))

\* !isNaN(text): the text is one decimal numeral.
IsNumeral(ts) == Len(ts) = 1 /\ (IsDigits(ts[1]) \/ ts[1] = "2.5")

\* isNaN(right) ? { get: right } : { value: parseFloat(right) }
OperandOf(token) ==
  IF IsNumeral(<<token>>) THEN ValueOf("number", token) ELSE GetOf(token)

RegexOf(pattern, in) == [k |-> "regex", pattern |-> pattern, input |-> in]
LogicalOf(op, l, r) == [k |-> "logical", op |-> op, l |-> l, r |-> r]

parser_ConstFalse == CompareOf(ValueOf("boolean", "false"), "===", ValueOf("boolean", "false"))

\* The tokens with a character left, in order: \s* and \s+ span the blanks
\* around an empty token.
NonEmpty(ts) == SelectSeq(ts, LAMBDA t : t # "")

\* FirstIn with a slip: the group before the separator is greedy, the last
\* separator is taken.
LastIn(ts, S, from) ==
  LET ps == {p \in from..(Len(ts) - 1) : p > 1 /\ ts[p] \in S}
  IN IF ps = {} THEN 0 ELSE CHOOSE p \in ps : \A q \in ps : q <= p

\* The index of the first token of ts from position `from` on that is in S
\* and has text on both sides; 0 when there is none.
FirstIn(ts, S, from) ==
  LET ps == {p \in from..(Len(ts) - 1) : p > 1 /\ ts[p] \in S}
  IN IF ps = {} THEN 0 ELSE Min(ps)

\* The alternatives of the operator group of compareMatch.
CompareAlternatives == {">", ">=", "<", "<=", "===", "!==", "=="}

\* /(\w+)\s*(>|>=|<|<=|===|!==|==)\s*(\S+)/ : the leftmost word that an
\* operator and one more token follow; 0 when there is none.
CompareMatchAt(ts) ==
  LET ps == {p \in 1..(Len(ts) - 2) : IsWord(ts[p]) /\ ts[p + 1] \in CompareAlternatives}
  IN IF ps = {} THEN 0 ELSE Min(ps)

\* parseCondition of parser.js.
RECURSIVE parser_parseCondition(_)
parser_parseCondition(conditionStr) ==
  LET sanitized == parser_sanitizeInput(conditionStr)
      words == NonEmpty(sanitized)
      c == FirstIn(words, {"contains"}, 1)
      c2 == FirstIn(words \o <<"contains", "">>, {"contains"}, c + 1)
      g == FirstIn(words, {"&&", "||"}, 1)
      m == CompareMatchAt(words)
  IN IF sanitized = <<>> THEN parser_ConstFalse
     ELSE IF \E i \in 1..Len(words) : words[i] = "contains"
       THEN IF c = 0 THEN parser_ConstFalse
            ELSE RegexOf(".*" \o Join(SubSeq(words, c + 1, c2 - 1)) \o ".*",
                         GetOf(Join(SubSeq(words, 1, c - 1))))
     ELSE IF g # 0
       THEN LogicalOf(IF words[g] = "&&" THEN "and" ELSE "or",
                      parser_parseCondition(SubSeq(words, 1, g - 1)),
                      parser_parseCondition(SubSeq(words, g + 1, Len(words))))
     ELSE IF m # 0
       THEN CompareOf(GetOf(words[m]), words[m + 1], OperandOf(words[m + 2]))
     ELSE CompareOf(GetOf(Join(sanitized)), "===", ValueOf("boolean", "true"))

\* inferType of parser.js.
parser_inferType(value) ==
  IF value.k = "value"
    THEN (IF value.t = "number" THEN "number"
          ELSE IF value.t = "boolean" THEN "boolean" ELSE "string")
  ELSE IF value.k = "math" THEN "number"
  ELSE "string"

\* ParserContext of parser.js: [sc, tm, errs] for stepCounter, typeMap, errors.
ParserContext == [sc |-> 1, tm |-> EmptyMap, errs |-> <<>>]
parser_nextId(ctx) == [ctx EXCEPT !.sc = @ + 1]
parser_addError(ctx, message) == [ctx EXCEPT !.errs = Append(@, message)]

\* createWaitStep of parser.js keeps the unit with the value.
parser_createWaitStep(id, seconds) ==
  [id |-> id, type |-> STEP_WAIT, duration |-> [unit |-> "seconds", value |-> seconds]]

\* What a parse function hands back: the context as it left it, and its steps.
Emitted(ctx, steps) == [ctx |-> ctx, steps |-> steps]

\* The value of commandParsers (set): the expression, or the fallback when
\* parseExpression answers null.
SetValueOf(expr, rawValue, trimmed) ==
  IF expr # Null THEN expr
  ELSE IF Len(trimmed) = 1 /\ IsWord(trimmed[1]) THEN GetOf(trimmed[1])
  ELSE IF IsNumeral(rawValue) THEN ValueOf("number", rawValue[1])
  ELSE ValueOf("string", Join(trimmed))

\* The end of commandParsers (set): the type is recorded, then the step is made.
EmitSet(ctx, target, value) ==
  Emitted(parser_nextId([ctx EXCEPT !.tm = SetType(@, target, parser_inferType(value))]),
          <<createSetStep(ctx.sc, target, value)>>)

\* commandParsers (set) of parser.js.
parser_parseSet(ctx, target, rawValue) ==
  EmitSet(ctx, target,
          SetValueOf(parser_parseExpression(rawValue), rawValue, TrimRight(TrimLeft(rawValue))))

\* commandParsers (return) of parser.js.
parser_parseReturn(ctx, valueStr) ==
  LET value == IF IsNumeral(valueStr) THEN ValueOf("number", valueStr[1])
               ELSE GetOf(Join(valueStr))
  IN Emitted(parser_nextId(ctx), <<createReturnStep(ctx.sc, value)>>)

\* The verbs of the registry of parser.js, in its order.
parser_Verbs == <<"repeat", "wait", "set", "return">>

\* commandParsers.find(p => p.verb === verb || sanitized.startsWith(p.verb)):
\* the index of the parser found, 0 for none.
FindParser(verb, sanitized) ==
  LET ps == {p \in 1..Len(parser_Verbs) :
               parser_Verbs[p] = verb \/ sanitized[1] = parser_Verbs[p]}
  IN IF ps = {} THEN 0 ELSE Min(ps)

\* The verb compromise reports for a sentence is not in the source: it is
\* the word at position `pick` of the sentence when there is one, else the
\* fallback of parseSentence, the first word.
VerbOf(sanitized, pick) ==
  IF pick \in 1..Len(sanitized) THEN sanitized[pick] ELSE sanitized[1]

\* commandParsers (repeat) of parser.js. `body` is what its call
\* parseSentence(bodyStr, context) hands back; that call is made once the
\* ids of the loop and of init are taken.
parser_parseRepeat(ctx, ts, body) ==
  LET id == ctx.sc
      loopCounter == LoopCounter(id)
      init == createSetStep(id + 1, loopCounter, ValueOf("number", "0"))
      inc == createSetStep(body.ctx.sc, loopCounter,
                           MathOf("add", GetOf(loopCounter), ValueOf("number", "1")))
      loop == createWhileStep(id,
                CompareOf(GetOf(loopCounter), "<", ValueOf("number", ts[Len(ts) - 1])),
                body.steps \o <<inc>>)
      c2 == [parser_nextId(body.ctx) EXCEPT !.tm = SetType(@, loopCounter, "number")]
  IN Emitted(c2, <<init, loop>>)

\* parseSentence of parser.js.
RECURSIVE parser_parseSentence(_, _, _)
parser_parseSentence(ctx, sentence, pick) ==
  LET sanitized == parser_sanitizeInput(sentence)
      parser == FindParser(VerbOf(sanitized, pick), sanitized)
      unable == Emitted(parser_addError(ctx, "Unable to parse: \"" \o Join(sanitized) \o "\""), <<>>)
  IN IF sanitized = <<>>
       THEN Emitted(parser_addError(ctx, "Invalid sentence: \"" \o Join(sentence) \o "\""), <<>>)
     ELSE IF parser = 1 /\ MatchRepeat(sanitized)
       THEN parser_parseRepeat(ctx, sanitized,
              parser_parseSentence(parser_nextId(parser_nextId(ctx)),
                                   SubSeq(sanitized, 2, Len(sanitized) - 2), pick))
     ELSE IF parser = 2 /\ MatchWait(sanitized)
       THEN Emitted(parser_nextId(ctx), <<parser_createWaitStep(ctx.sc, ParseInt(sanitized[2]))>>)
     ELSE IF parser = 3 /\ MatchSet(sanitized)
       THEN parser_parseSet(ctx, sanitized[2], SubSeq(sanitized, 4, Len(sanitized)))
     ELSE IF parser = 4 /\ MatchReturn(sanitized)
       THEN parser_parseReturn(ctx, SubSeq(sanitized, 2, Len(sanitized)))
     ELSE unable

(***************************************************************************)
(* Calls of the functions of parser.js: one call per behaviour, on a fresh *)
(* ParserContext.                                                          *)
(***************************************************************************)

\* Longest token sequence given to parseExpression as it comes.
MaxTokens == 4
\* Longest sequence of the expression grammar given to parseExpression.
MaxExprTokens == 7

\* An identifier, an integer numeral and a numeral with a fractional part.
ExprAtoms == {"x", "2", "2.5"}
ExprOps == {"+", "-", "*", "/"}

\* Every sequence of at most n tokens of the expression alphabet.
RECURSIVE TokenSeqs(_)
TokenSeqs(n) ==
  IF n = 0 THEN {<<>>}
  ELSE TokenSeqs(n - 1) \cup
       {Append(s, t) : s \in {q \in TokenSeqs(n - 1) : Len(q) = n - 1},
                       t \in ExprAtoms \cup ExprSymbols}

\* The sequences of the grammar  E ::= atom | E op E | ( E ), by length:
\* table[k] holds those of k tokens; GrammarTable extends it up to n.
GrammarStep(table, k) ==
  IF k = 1 THEN {<<a>> : a \in ExprAtoms}
  ELSE (IF k >= 3 THEN {<<"(">> \o e \o <<")">> : e \in table[k - 2]} ELSE {}) \cup
       UNION {{l \o <<o>> \o r : l \in table[i], o \in ExprOps, r \in table[k - 1 - i]} :
                i \in 1..(k - 2)}

RECURSIVE GrammarTable(_, _)
GrammarTable(table, n) ==
  IF Len(table) >= n THEN table
  ELSE CHOOSE full \in {GrammarTable(longer, n) :
                          longer \in {Append(table, GrammarStep(table, Len(table) + 1))}} : TRUE

GrammarTexts ==
  UNION {UNION {table[n] : n \in 1..MaxExprTokens} : table \in {GrammarTable(<<>>, MaxExprTokens)}}

ExprTexts == TokenSeqs(MaxTokens) \cup GrammarTexts

\* Conditions with two and with three connectives.
Connectives == {"&&", "||"}
CondOperands == {<<"x">>, <<"y">>, <<"x", "==", "2">>}
LogicalTexts ==
  {a \o <<o1>> \o b \o <<o2>> \o c :
     a \in CondOperands, b \in CondOperands, c \in CondOperands,
     o1 \in Connectives, o2 \in Connectives}
  \cup {<<"x", o1, "y", o2, "x", o3, "y">> :
           o1 \in Connectives, o2 \in Connectives, o3 \in Connectives}

CondTexts ==
  {<<>>, <<"<", ">">>, <<"x">>, <<"contains", "y">>, <<"x", "contains", "y">>,
   <<"x", "==", "2", "&&", "y", "===", "2.5">>, <<"x", "==", "2", "||", "y", "!==", "x">>}
  \cup {<<i, op, t>> : i \in {"x", "count"}, op \in COMPARE_OPS, t \in {"2", "2.5", "y"}}
  \cup LogicalTexts

SentenceTexts ==
  {<<"set", v, "to", n>> : v \in {"x", "y"}, n \in {"0", "2", "2.5", "x", "<"}}
  \cup {<<"repeat">> \o b \o <<n, "times">> :
          b \in {SetXInc, SetX0, WaitTwo, <<"return", "x">>, <<"frobnicate">>,
                 <<"repeat">> \o WaitTwo \o <<"2", "times">>},
          n \in {"2", "3"}}
  \cup {SetXInc, WaitTwo, <<"return", "x">>, <<"return", "2">>, <<"<">>,
        <<"frobnicate", "the", "whatsit">>, <<"loop">> \o WaitTwo \o <<"2", "times">>,
        <<"set", "wait", "to", "2">>, <<"set", "x", "to", "(", "x", "+", "1", ")", "*", "2">>}

ParserCalls ==
  {[fn |-> "parseExpression", text |-> t] : t \in ExprTexts}
  \cup {[fn |-> "parseCondition", text |-> t] : t \in CondTexts}
  \cup {[fn |-> "parseSentence", text |-> t] : t \in SentenceTexts}

\* A fresh ParserContext and the call to make.
ParserInit ==
  /\ input \in ParserCalls
  /\ pc = "call"
  /\ cursor = 1
  /\ stepCounter = ParserContext.sc
  /\ typeMap = ParserContext.tm
  /\ errors = ParserContext.errs
  /\ macros = EmptyMap
  /\ promises = <<>>
  /\ jobs = <<>>
  /\ linePromises = <<>>
  /\ allPromise = 0
  /\ allValues = <<>>
  /\ allLeft = 0
  /\ result = NoResult
  /\ AsideInit

ParserFrame ==
  <<input, cursor, macros, promises, jobs, linePromises, allPromise, allValues, allLeft, Aside>>

CallParseExpression ==
  /\ pc = "call"
  /\ input.fn = "parseExpression"
  /\ result' = parser_parseExpression(input.text)
  /\ pc' = "returned"
  /\ UNCHANGED <<stepCounter, typeMap, errors>>
  /\ UNCHANGED ParserFrame

CallParseCondition ==
  /\ pc = "call"
  /\ input.fn = "parseCondition"
  /\ result' = parser_parseCondition(input.text)
  /\ pc' = "returned"
  /\ UNCHANGED <<stepCounter, typeMap, errors>>
  /\ UNCHANGED ParserFrame

\* parseSentence(sentence, context), for every verb compromise may report.
CallParseSentence ==
  /\ pc = "call"
  /\ input.fn = "parseSentence"
  /\ \E pick \in 0..Len(input.text) :
       LET r == parser_parseSentence([sc |-> stepCounter, tm |-> typeMap, errs |-> errors],
                                     input.text, pick)
       IN /\ stepCounter' = r.ctx.sc
          /\ typeMap' = r.ctx.tm
          /\ errors' = r.ctx.errs
          /\ result' = r.steps
  /\ pc' = "returned"
  /\ UNCHANGED ParserFrame

ParserNext == CallParseExpression \/ CallParseCondition \/ CallParseSentence

ParserSpec == ParserInit /\ [][ParserNext]_vars

Returned(fn) == pc = "returned" /\ input.fn = fn

(***************************************************************************)
(* Properties of the functions of parser.js, under ParserSpec              *)
(***************************************************************************)

\* `set V to N` with N one decimal numeral.
IsSetNumeral(ts) ==
  Len(ts) = 4 /\ ts[1] = "set" /\ IsWord(ts[2]) /\ ts[3] = "to" /\ IsNumeral(<<ts[4]>>)

\* C11: for a line `set V to N` where N is a decimal numeral (an integer or
\* with a fractional part), parseSentence emits one Set step whose value is
\* a numeric literal, not a variable reference, and records V as number.
C11_NumeralIsNumber ==
  (Returned("parseSentence") /\ IsSetNumeral(input.text)) =>
    /\ Len(result) = 1
    /\ result[1].type = STEP_SET
    /\ result[1].target = input.text[2]
    /\ result[1].value = ValueOf("number", input.text[4])
    /\ typeMap[input.text[2]] = "number"

\* The operator sign of a node of the tree.
SignOf(op) ==
  CASE op = "add" -> "+" [] op = "subtract" -> "-"
    [] op = "multiply" -> "*" [] op = "divide" -> "/"

\* The grouping of a tree: <<left, sign, right>> for a node, the text of the
\* token for a leaf, "null" for a missing operand.
RECURSIVE ShapeOf(_)
ShapeOf(e) ==
  IF e = Null THEN "null"
  ELSE IF e.k = "math" THEN <<ShapeOf(e.l), SignOf(e.op), ShapeOf(e.r)>>
  ELSE e.v

\* The number of parentheses open before position p of ts.
Depth(ts, p) ==
  Cardinality({i \in 1..(p - 1) : ts[i] = "("}) - Cardinality({i \in 1..(p - 1) : ts[i] = ")"})

\* The positions of the signs of S outside every parenthesis.
TopLevel(ts, S) == {p \in 1..Len(ts) : ts[p] \in S /\ Depth(ts, p) = 0}

Max(S) == CHOOSE x \in S : \A y \in S : y <= x

\* The grouping the reference grammar gives a sequence: the last + or -
\* outside parentheses splits it; failing that the last * or /; failing
\* that it is a parenthesised group or one token.
RECURSIVE GroupingOf(_)
SplitAt(ts, p) ==
  <<GroupingOf(SubSeq(ts, 1, p - 1)), ts[p], GroupingOf(SubSeq(ts, p + 1, Len(ts)))>>
GroupingOf(ts) ==
  IF TopLevel(ts, {"+", "-"}) # {} THEN SplitAt(ts, Max(TopLevel(ts, {"+", "-"})))
  ELSE IF TopLevel(ts, {"*", "/"}) # {} THEN SplitAt(ts, Max(TopLevel(ts, {"*", "/"})))
  ELSE IF ts[1] = "(" THEN GroupingOf(SubSeq(ts, 2, Len(ts) - 1))
  ELSE ts[1]

\* C15: for every token sequence of the expression grammar, parseExpression
\* returns the tree of the reference grammar: * and / bind tighter than +
\* and -, signs of one level associate to the left, and a parenthesised
\* group is one operand.
C15_ReferenceGrouping ==
  (Returned("parseExpression") /\ input.text \in GrammarTexts) =>
    /\ result # Null
    /\ ShapeOf(result) = GroupingOf(input.text)

\* Every node of the tree has its two operands.
RECURSIVE Complete(_)
Complete(e) ==
  /\ e # Null
  /\ e.k = "math" => (Complete(e.l) /\ Complete(e.r))

\* C16: parseExpression returns no expression or a complete tree: every
\* binary node of a returned tree has two operands, whatever the tokens.
C16_NoPartialTree ==
  Returned("parseExpression") => (result = Null \/ Complete(result))

\* The bindings of the variables x and y.
Bindings ==
  [{"x", "y"} -> {ValueOf("number", "2"), ValueOf("boolean", "true"), ValueOf("boolean", "false")}]

\* The value of an operand under a binding.
OperandValue(o, env) ==
  IF o.k = "get" THEN (IF o.v \in DOMAIN env THEN env[o.v] ELSE ValueOf("undefined", ""))
  ELSE o

\* Whether a comparison by === or !== holds under a binding.
StrictOps == {"===", "!=="}
CompareHolds(c, env) ==
  IF c.op = "===" THEN OperandValue(c.left, env) = OperandValue(c.right, env)
  ELSE OperandValue(c.left, env) # OperandValue(c.right, env)

\* C17: parseCondition returns a condition for every text, and for a text
\* with nothing to parse (empty once sanitized) that condition is false
\* under every binding of the variables.
C17_EmptyConditionIsFalse ==
  Returned("parseCondition") =>
    /\ result.k \in {"compare", "regex", "logical"}
    /\ parser_sanitizeInput(input.text) = <<>> =>
         /\ result.k = "compare"
         /\ result.op \in StrictOps
         /\ \A env \in Bindings : ~CompareHolds(result, env)

\* IDENT OP TOKEN with OP one of the seven comparison operators.
IsComparison(ts) == Len(ts) = 3 /\ IsWord(ts[1]) /\ ts[2] \in COMPARE_OPS /\ ts[3] # ""

\* C18: for a condition text IDENT OP TOKEN, OP any of >=, <=, ===, !==, ==,
\* >, <, parseCondition returns a comparison with left operand IDENT,
\* operator OP in full and right operand TOKEN.
C18_ComparisonKeepsOperator ==
  (Returned("parseCondition") /\ IsComparison(input.text)) =>
    /\ result.k = "compare"
    /\ result.left = GetOf(input.text[1])
    /\ result.op = input.text[2]
    /\ result.right.v = input.text[3]

(***************************************************************************)
(* Properties of the nested commands of framework.js (under Spec)          *)
(***************************************************************************)

\* The top-level sentences of the input whose first matching parser is verb.
LinesOf(verb) ==
  {i \in 1..Len(SentencesOf(input)) : commandParsers(SentencesOf(input)[i]) = verb}

\* The step type a one-step command yields.
LeafType(verb) ==
  CASE verb = "set" -> {STEP_SET}
    [] verb = "wait" -> {STEP_WAIT}
    [] verb = "break" -> {STEP_BREAK}
    [] verb = "return" -> {STEP_RETURN}
    [] verb = "analyze" -> {STEP_SET}
    [] verb = "render" -> {STEP_UI_RENDER}
    [] verb = "state" -> {STEP_UI_STATE}
    [] verb = "style" -> {STEP_CSS_STYLE}
    [] verb = "on" -> {STEP_UI_EVENT}
    [] OTHER -> {}

\* The bodies the input's macro sentences give the macro name. A call yields
\* nothing (unknown macro) or a copy of what one of these bodies yielded, which
\* is of the same shape; no macro body of the input holds a call.
MacroBodies(name) ==
  {SubSeq(SentencesOf(input)[j], 3, Len(SentencesOf(input)[j])) :
     j \in {i \in LinesOf("macro") : SentencesOf(input)[i][2] = name}}

IsInit(step, counter) ==
  step = createSetStep(step.id, counter, ValueOf("number", "0"))
IsInc(step, counter) ==
  step = createSetStep(step.id, counter,
                       MathOf("add", GetOf(counter), ValueOf("number", "1")))
IsLoop(step, counter, times) ==
  /\ step.type = STEP_WHILE
  /\ step.condition = CompareOf(GetOf(counter), "<", ValueOf("number", times))

RepeatBody(ts) == SubSeq(ts, 2, Len(ts) - 2)
RepeatTimes(ts) == ts[Len(ts) - 1]

\* steps has the shape of what dispatching the sentence ts yields: the step
\* list of the first matching parser, clause by clause.
RECURSIVE Dispatched(_, _)
DispatchedRepeat(steps, ts) ==
  /\ Len(steps) = 2
  /\ IsInit(steps[1], steps[1].target)
  /\ IsLoop(steps[2], steps[1].target, RepeatTimes(ts))
  /\ steps[2].body # <<>>
  /\ IsInc(steps[2].body[Len(steps[2].body)], steps[1].target)
  /\ Dispatched(SubSeq(steps[2].body, 1, Len(steps[2].body) - 1), RepeatBody(ts))
DispatchedElse(steps, ts) ==
  IF ts = <<>> THEN steps = <<>> ELSE Dispatched(steps, ts)
DispatchedIf(steps, ts) ==
  /\ Len(steps) = 1
  /\ steps[1].type = STEP_IF
  /\ Dispatched(steps[1].then, IfThen(ts))
  /\ DispatchedElse(steps[1].else, IfElse(ts))
Dispatched(steps, ts) ==
  CASE commandParsers(ts) = "repeat" -> DispatchedRepeat(steps, ts)
    [] commandParsers(ts) = "if" -> DispatchedIf(steps, ts)
    [] commandParsers(ts) = "call" ->
         steps = <<>> \/ \E body \in MacroBodies(ts[2]) : Dispatched(steps, body)
    [] commandParsers(ts) \in {"macro", "none"} -> steps = <<>>
    [] OTHER -> Len(steps) = 1 /\ steps[1].type \in LeafType(commandParsers(ts))

\* The statement of C12 as written: the sentence contributes one While alone,
\* whose body starts with the counter-init Set.
C12_InitInsideBody ==
  Compiled =>
    \A i \in LinesOf("repeat") :
      /\ Len(LineSteps(i)) = 1
      /\ LineSteps(i)[1].type = STEP_WHILE
      /\ LineSteps(i)[1].body # <<>>
      /\ LineSteps(i)[1].body[1].type = STEP_SET
      /\ IsInit(LineSteps(i)[1].body[1], LineSteps(i)[1].body[1].target)

\* C12 (amended): a sentence `repeat BODY N times` contributes the counter-init
\* Set (value 0) followed by exactly one While step with the condition
\* counter < N, whose body holds, in order, the steps parsed from BODY and the
\* increment Set (counter + 1); when the While is built the counter is
\* recorded in the type map as number.
C12_InitThenLoop ==
  /\ [](Compiled => \A i \in LinesOf("repeat") :
                      DispatchedRepeat(LineSteps(i), SentencesOf(input)[i]))
  /\ [][Runs("repeat") => typeMap'[LoopCounter(Job.reaction.id)] = "number"]_vars

\* A compiled repeat sentence whose body contributed a step.
C12_Witness ==
  /\ Compiled
  /\ \E i \in LinesOf("repeat") : Len(LineSteps(i)) = 2 /\ Len(LineSteps(i)[2].body) = 2

\* The While steps of the compiled tree, and the counter a While tests.
Loops == SelectSeq(TreeSteps, LAMBDA s : s.type = STEP_WHILE)
CounterOf(loop) == loop.condition.left.v

\* C13: no two While steps of one compiled step tree use the same counter
\* variable, and each loop's counter name is derived from that While step's
\* own id (nested loops and expansions of a loop-holding macro included).
C13_LoopCountersDistinct ==
  Compiled =>
    /\ \A a, b \in 1..Len(Loops) : a # b => CounterOf(Loops[a]) # CounterOf(Loops[b])
    /\ \A a \in 1..Len(Loops) : CounterOf(Loops[a]) = LoopCounter(Loops[a].id)

\* The first half of C13 alone: the counters of the tree's loops are distinct.
C13_NoSharedCounter ==
  Compiled => \A a, b \in 1..Len(Loops) : a # b => CounterOf(Loops[a]) # CounterOf(Loops[b])

\* How many steps of the compiled tree carry the id of step.
Occurrences(step) ==
  Cardinality({k \in 1..Len(TreeSteps) : TreeSteps[k].id = step.id})

\* The steps an If step holds in its two clause lists.
ClauseSteps(step) == {step.then[k] : k \in 1..Len(step.then)} \cup
                     {step.else[k] : k \in 1..Len(step.else)}

\* C14: a sentence `if COND then T else E` contributes exactly one step, of
\* type If, whose then list is what dispatching T yields and whose else list
\* is what dispatching E yields (empty without an else clause); each step of
\* the two lists occurs once in the compiled tree.
C14_IfHoldsClauses ==
  Compiled =>
    \A i \in LinesOf("if") :
      /\ DispatchedIf(LineSteps(i), SentencesOf(input)[i])
      /\ \A s \in ClauseSteps(LineSteps(i)[1]) : Occurrences(s) = 1

\* A compiled if sentence both of whose clauses contributed a step.
C14_Witness ==
  /\ Compiled
  /\ \E i \in LinesOf("if") :
       /\ Len(LineSteps(i)) = 1
       /\ LineSteps(i)[1].then # <<>>
       /\ LineSteps(i)[1].else # <<>>

\* The node render gives a top-level step, and the plain edges into a node.
TopNode(step) == "STEP" \o StepId(step.id)
PlainInto(nodeId) ==
  {result.mermaidDiagram.edges[k] : k \in
     {j \in 1..Len(result.mermaidDiagram.edges) :
        /\ result.mermaidDiagram.edges[j].tag = ""
        /\ result.mermaidDiagram.edges[j].to = nodeId}}
PlainEdge(from, to) == [tag |-> "", from |-> from, to |-> to]

\* The node before the i-th node of the chain Start, top-level steps, End.
ChainBefore(i) == IF i = 1 THEN "START" ELSE TopNode(TopSteps[i - 1])

\* C19: in the rendered diagram the one plain edge into each top-level step's
\* node comes from the node of the preceding top-level step (Start for the
\* first), and the one plain edge into End comes from the last top-level
\* step's node: no node of a nested step lies on the chain.
C19_ChainIsTopLevel ==
  Compiled =>
    /\ \A i \in 1..Len(TopSteps) :
         PlainInto(TopNode(TopSteps[i])) = {PlainEdge(ChainBefore(i), TopNode(TopSteps[i]))}
    /\ PlainInto("END") = {PlainEdge(ChainBefore(Len(TopSteps) + 1), "END")}

\* C19 over the validated workflows only.
C19_ChainOfAccepted == Accepted => C19_ChainIsTopLevel

\* The ids of the step nodes of the rendered diagram (Start aside), and the
\* ids of its subgraph placeholders.
StepNodes == Tail(result.mermaidDiagram.nodes)
Placeholders ==
  {result.mermaidDiagram.edges[k].to : k \in
     {j \in 1..Len(result.mermaidDiagram.edges) : result.mermaidDiagram.edges[j].tag # ""}}

\* C20: in the diagram of a validated workflow the nodes of two steps of the
\* tree, whatever their depth, have different ids, and no subgraph placeholder
\* has the id of a step's node.
C20_NodeIdsDistinct ==
  Accepted =>
    /\ \A a, b \in 1..Len(StepNodes) : a # b => StepNodes[a].id # StepNodes[b].id
    /\ \A a \in 1..Len(StepNodes) : StepNodes[a].id \notin Placeholders

\* The second half of C20 alone.
C20_PlaceholdersApart ==
  Accepted => \A a \in 1..Len(StepNodes) : StepNodes[a].id \notin Placeholders

(***************************************************************************)
(* Properties of the shared context of framework.js (under Spec)           *)
(***************************************************************************)

IsPrefix(s, t) == Len(s) <= Len(t) /\ SubSeq(t, 1, Len(s)) = s

\* The parse-time diagnostics the sentence ts can cause, its nested clauses
\* (macro body, loop body, branch clauses) included.
RECURSIVE Origins(_)
OriginsOfElse(ts) == IF ts = <<>> THEN {} ELSE Origins(ts)
Origins(ts) ==
  CASE commandParsers(ts) = "none" -> {"Unrecognized command: \"" \o Join(ts) \o "\""}
    [] commandParsers(ts) = "call" -> {"Unknown macro: " \o ts[2]}
    [] commandParsers(ts) = "macro" -> Origins(SubSeq(ts, 3, Len(ts)))
    [] commandParsers(ts) = "repeat" -> Origins(RepeatBody(ts))
    [] commandParsers(ts) = "if" -> Origins(IfThen(ts)) \cup OriginsOfElse(IfElse(ts))
    [] OTHER -> {}

\* Every pair of diagnostics can be assigned to sentences in input order.
InLineOrder(errs) ==
  \A a, b \in 1..Len(errs) :
    a < b => \E i, j \in 1..Len(SentencesOf(input)) :
               /\ i <= j
               /\ errs[a] \in Origins(SentencesOf(input)[i])
               /\ errs[b] \in Origins(SentencesOf(input)[j])

\* C23: the diagnostics of parsing are only ever appended, and while the
\* sentences are parsed they stand in the order of the sentences that caused
\* them, those raised inside nested clauses included.
C23_DiagnosticsInLineOrder ==
  /\ [][IsPrefix(errors, errors')]_vars
  /\ [](pc \in {"dispatch", "run"} => InLineOrder(errors))

\* The first half of C23 alone: diagnostics are only ever appended.
C23_AppendOnly == [][IsPrefix(errors, errors')]_vars

\* The type the set parser infers for the value text ts.
SetTypeOf(ts) == inferType(ExpressionOf(TransformerParse(sanitizeInput(ts)), sanitizeInput(ts)))

\* The Sets of the sentence ts in input order, nested clauses depth-first:
\* the target of each and the type inferred for its value.
RECURSIVE SetsOf(_)
SetsOfElse(ts) == IF ts = <<>> THEN <<>> ELSE SetsOf(ts)
SetsOf(ts) ==
  CASE commandParsers(ts) = "set" ->
         <<[target |-> ts[2], type |-> SetTypeOf(SubSeq(ts, 4, Len(ts)))]>>
    [] commandParsers(ts) = "macro" -> SetsOf(SubSeq(ts, 3, Len(ts)))
    [] commandParsers(ts) = "repeat" -> SetsOf(RepeatBody(ts))
    [] commandParsers(ts) = "if" -> SetsOf(IfThen(ts)) \o SetsOfElse(IfElse(ts))
    [] OTHER -> <<>>

\* The Sets of the whole input, sentence after sentence.
InputSets == Flat([i \in 1..Len(SentencesOf(input)) |-> SetsOf(SentencesOf(input)[i])])

\* The last Set of the input on the target of its k-th Set.
LastSetOn(k) ==
  InputSets[CHOOSE j \in 1..Len(InputSets) :
              /\ InputSets[j].target = InputSets[k].target
              /\ \A l \in (j + 1)..Len(InputSets) : InputSets[l].target # InputSets[k].target]

\* C24: when generateWorkflow returns, the type recorded for a variable is the
\* type inferred for the Set on that variable that comes last in input order
\* (sentences in order, nested clauses depth-first within their sentence).
C24_LastSetWins ==
  Compiled =>
    \A k \in 1..Len(InputSets) :
      /\ InputSets[k].target \in DOMAIN typeMap
      /\ typeMap[InputSets[k].target] = LastSetOn(k).type

\* The macro names the sentence ts calls, its nested clauses included.
RECURSIVE CallsOf(_)
CallsOfElse(ts) == IF ts = <<>> THEN {} ELSE CallsOf(ts)
CallsOf(ts) ==
  CASE commandParsers(ts) = "call" -> {ts[2]}
    [] commandParsers(ts) = "macro" -> CallsOf(SubSeq(ts, 3, Len(ts)))
    [] commandParsers(ts) = "repeat" -> CallsOf(RepeatBody(ts))
    [] commandParsers(ts) = "if" -> CallsOf(IfThen(ts)) \cup CallsOfElse(IfElse(ts))
    [] OTHER -> {}
Called == UNION {CallsOf(SentencesOf(input)[i]) : i \in 1..Len(SentencesOf(input))}

IdsOf(steps) == {steps[k].id : k \in 1..Len(steps)}

\* C25: a sentence `macro NAME BODY` contributes no step and stores the steps
\* of BODY under NAME; the stored steps themselves are never in the compiled
\* tree, and the steps they hold are in it only if the input calls NAME.
C25_MacroOnlyDeclares ==
  /\ [][Runs("macro") => /\ Job.reaction.name \in DOMAIN macros'
                         /\ macros'[Job.reaction.name] = Job.val
                         /\ promises'[Job.reaction.res].val = <<>>]_vars
  /\ [](Compiled =>
          /\ \A i \in LinesOf("macro") : LineSteps(i) = <<>>
          /\ \A name \in DOMAIN macros :
               /\ \E body \in MacroBodies(name) : Dispatched(macros[name], body)
               /\ IdsOf(macros[name]) \cap IdsOf(TreeSteps) = {}
               /\ name \notin Called =>
                    IdsOf(AllSteps(macros[name])) \cap IdsOf(TreeSteps) = {})

\* A compiled input that defines a macro with steps, never calls it, and
\* contributes steps of its own.
C25_Witness ==
  /\ Compiled
  /\ TreeSteps # <<>>
  /\ \E name \in DOMAIN macros : macros[name] # <<>> /\ name \notin Called

\* Every nested dispatch of the sentence ts (macro body, loop body, branch
\* clauses) and the parse of its condition get a text shorter than ts.
RECURSIVE Shrinks(_)
ShrinksElse(ts, clause) == clause = <<>> \/ (Len(clause) < Len(ts) /\ Shrinks(clause))
ShrinksTo(ts, clause) == Len(clause) < Len(ts) /\ Shrinks(clause)
Shrinks(ts) ==
  CASE commandParsers(ts) = "macro" -> ShrinksTo(ts, SubSeq(ts, 3, Len(ts)))
    [] commandParsers(ts) = "repeat" -> ShrinksTo(ts, RepeatBody(ts))
    [] commandParsers(ts) = "if" ->
         /\ Len(IfCondition(ts)) < Len(ts)
         /\ ShrinksTo(ts, IfThen(ts))
         /\ ShrinksElse(ts, IfElse(ts))
    [] OTHER -> TRUE

\* How far a call is: its position, the sentences dispatched, the promises
\* made, the promises settled, the elements Promise.all has received, the
\* promise-resolving jobs run. No step lowers a component.
PcRank == CASE pc = "start" -> 0 [] pc = "dispatch" -> 1 [] pc = "run" -> 2 [] OTHER -> 3
Settled == Cardinality({p \in 1..Len(promises) : promises[p].st = "fulfilled"})
Thenables == Cardinality({i \in 1..Len(jobs) : jobs[i].reaction.k = "thenable"})
Measure == <<PcRank, cursor, Len(promises), Settled, 0 - allLeft, 0 - Thenables>>

\* a comes before b in the lexicographic order.
LexLess(a, b) ==
  \E k \in 1..Len(a) : a[k] < b[k] /\ \A j \in 1..(k - 1) : a[j] = b[j]

\* C29: every nested dispatch gets a text strictly shorter than its caller's,
\* and generateWorkflow returns for every input, a macro whose body calls
\* itself included: until it has returned the call can take a step, and every
\* step takes it further, so that no run goes on for ever.
C29_CompileTerminates ==
  /\ [](\A i \in 1..Len(SentencesOf(input)) : Shrinks(SentencesOf(input)[i]))
  /\ [](pc # "done" => CanStep)
  /\ [][LexLess(Measure, Measure')]_vars

\* A compilation that has returned for an input whose macro calls itself.
C29_Witness ==
  /\ Compiled
  /\ \E i \in LinesOf("macro") :
       SentencesOf(input)[i][2] \in CallsOf(SentencesOf(input)[i])

(***************************************************************************)
(* Properties of parseCondition of parser.js (under ParserSpec)            *)
(***************************************************************************)

\* The positions of the connectives of a condition text.
ConnectivesAt(ts) == {i \in 1..Len(ts) : ts[i] \in Connectives}
LogicalName(op) == IF op = "&&" THEN "and" ELSE "or"

\* The tree that splits the text at its leftmost connective and goes on in
\* the same way on the right side; a side with no connective is reparsed.
RECURSIVE RightNested(_)
SplitLeftmost(ts, i) ==
  LogicalOf(LogicalName(ts[i]), parser_parseCondition(SubSeq(ts, 1, i - 1)),
            RightNested(SubSeq(ts, i + 1, Len(ts))))
RightNested(ts) ==
  IF ConnectivesAt(ts) = {} THEN parser_parseCondition(ts)
  ELSE SplitLeftmost(ts, Min(ConnectivesAt(ts)))

\* The call is parseCondition on operands joined by two or more connectives.
TwoConnectives ==
  /\ Returned("parseCondition")
  /\ input.text \in LogicalTexts

\* C28: for a condition with two or more connectives && and || and no
\* `contains`, parseCondition splits at the leftmost connective and reparses
\* each side: `a OP1 b OP2 c` yields OP1(a, OP2(b, c)) whatever OP1 and OP2.
C28_SplitsAtLeftmost == TwoConnectives => result = RightNested(input.text)

\* parseCondition has returned for `x || y && x == 2`.
C28_Witness ==
  /\ TwoConnectives
  /\ input.text = <<"x", "||", "y", "&&", "x", "==", "2">>
  /\ result.k = "logical" /\ result.op = "or" /\ result.r.k = "logical"

(***************************************************************************)
(* Calls of renderWorkflowAsMermaid on one workflow document               *)
(***************************************************************************)

\* The number of calls made on one document.
MaxRenders == 2

\* The steps of the documents: leaves, an If with both clauses, a While, an
\* If in an If, and two steps that share what they hold.
RenderLeaf == createSetStep(1, "x", ValueOf("string", "0"))
RenderSteps ==
  << RenderLeaf,
     createWaitStep(2, 2),
     createBreakStep(3),
     createIfStep(4, ConstFalse, <<RenderLeaf>>, <<createBreakStep(5)>>),
     createIfStep(6, ConstFalse, <<createWaitStep(7, 2)>>, <<>>),
     createWhileStep(8, ConstFalse, <<RenderLeaf, createBreakStep(9)>>),
     createIfStep(10, ConstFalse,
                  <<createIfStep(11, ConstFalse, <<RenderLeaf>>, <<>>)>>, <<>>),
     createWhileStep(12, ConstFalse, <<>>) >>

\* The documents: no document, and the workflows of at most two steps.
RenderDocs ==
  <<Null, WorkflowOf(<<>>, EmptyMap)>>
  \o [i \in 1..Len(RenderSteps) |-> WorkflowOf(<<RenderSteps[i]>>, EmptyMap)]
  \o [k \in 1..(Len(RenderSteps) * Len(RenderSteps)) |->
        WorkflowOf(<<RenderSteps[((k - 1) \div Len(RenderSteps)) + 1],
                     RenderSteps[((k - 1) % Len(RenderSteps)) + 1]>>, EmptyMap)]

\* A document is at hand and render has not been called.
RenderInit ==
  /\ \E d \in 1..Len(RenderDocs) : input = RenderDocs[d]
  /\ pc = "render"
  /\ cursor = 1
  /\ stepCounter = 1
  /\ typeMap = EmptyMap
  /\ errors = <<>>
  /\ macros = EmptyMap
  /\ promises = <<>>
  /\ jobs = <<>>
  /\ linePromises = <<>>
  /\ allPromise = 0
  /\ allValues = <<>>
  /\ allLeft = 0
  /\ result = NoResult
  /\ AsideInit

\* One call renderWorkflowAsMermaid(workflow): the function reads the
\* document and writes only the arrays it made itself.
CallRender ==
  /\ pc = "render"
  /\ Len(renders) < MaxRenders
  /\ renders' = Append(renders, renderWorkflowAsMermaid(input))
  /\ input' = input
  /\ UNCHANGED <<pc, cursor, stepCounter, typeMap, errors, macros, promises, jobs,
                 linePromises, allPromise, allValues, allLeft, result>>
  /\ UNCHANGED <<other, alone, logger, awaiting, entries, now>>

RenderNext == CallRender

RenderSpec == RenderInit /\ [][RenderNext]_vars

\* C21: render is pure: the calls made on one workflow document all return
\* the same graph description, and a call leaves the document as it was.
C21_RenderIsPure ==
  /\ [](\A a, b \in 1..Len(renders) : renders[a] = renders[b])
  /\ [][renders' # renders => input' = input]_vars

\* Two calls have been made on a document that holds nested steps.
C21_Witness ==
  /\ Len(renders) = MaxRenders
  /\ input # Null
  /\ \E k \in 1..Len(input.steps) : Nested(input.steps[k]) # <<>>

(***************************************************************************)
(* Two generateWorkflow calls. The variables of the call hold the call     *)
(* that runs its next job; `other` holds the call that waits meanwhile.    *)
(* Each text is first compiled with no other call about (`alone`), then    *)
(* the two are compiled again, their jobs interleaved in any order.        *)
(***************************************************************************)

\* The texts of the two calls: every command of the registry occurs, the
\* last two compiles fail.
PairTexts ==
  << <<SetX0, <<"return", "x">>>>,
     <<<<"macro", "inc">> \o SetXInc, IfXEq \o CallInc \o <<"else">> \o CallInc>>,
     <<<<"repeat">> \o SetXInc \o <<"3", "times">>, <<"state", "n", "as", "0">>>>,
     <<<<"analyze", "signal", "with", "neural_net">>, <<"frobnicate", "the", "whatsit">>>>,
     <<<<"frobnicate", "the", "whatsit">>>>,
     << <<>> >> >>

\* generateWorkflow with a slip: the context is made once for the module,
\* a call goes on with the counter, the maps and the errors of the last.
NewCallSharedContext(text, who) ==
  [who |-> who, input |-> text, pc |-> "start", cursor |-> 1,
   sc |-> stepCounter, tm |-> typeMap, errs |-> errors, macros |-> macros,
   proms |-> <<>>, jobs |-> <<>>, linePromises |-> <<>>, allPromise |-> 0,
   allValues |-> <<>>, allLeft |-> 0, result |-> NoResult]

\* generateWorkflow(text) before its first line ran: the call makes its
\* own context with new AdvancedParserContext().
NewCall(text, who) ==
  [who |-> who, input |-> text, pc |-> "start", cursor |-> 1,
   sc |-> 1, tm |-> EmptyMap, errs |-> <<>>, macros |-> EmptyMap,
   proms |-> <<>>, jobs |-> <<>>, linePromises |-> <<>>, allPromise |-> 0,
   allValues |-> <<>>, allLeft |-> 0, result |-> NoResult]

\* The call that runs, "A" or "B".
Running == IF other.who = "A" THEN "B" ELSE "A"

\* The call that runs, as it would wait.
Suspended ==
  [who |-> Running, input |-> input, pc |-> pc, cursor |-> cursor,
   sc |-> stepCounter, tm |-> typeMap, errs |-> errors, macros |-> macros,
   proms |-> promises, jobs |-> jobs, linePromises |-> linePromises,
   allPromise |-> allPromise, allValues |-> allValues, allLeft |-> allLeft,
   result |-> result]

\* The call c is the one that runs next.
Resume(c) ==
  /\ input' = c.input
  /\ pc' = c.pc
  /\ cursor' = c.cursor
  /\ stepCounter' = c.sc
  /\ typeMap' = c.tm
  /\ errors' = c.errs
  /\ macros' = c.macros
  /\ promises' = c.proms
  /\ jobs' = c.jobs
  /\ linePromises' = c.linePromises
  /\ allPromise' = c.allPromise
  /\ allValues' = c.allValues
  /\ allLeft' = c.allLeft
  /\ result' = c.result

\* What a call returned and the diagnostics of its context.
Outcome(c) == [result |-> c.result, errors |-> c.errs]

\* Call A is about to start, call B comes after it.
PairInit ==
  /\ \E a \in 1..Len(PairTexts) : input = PairTexts[a]
  /\ pc = "start"
  /\ cursor = 1
  /\ stepCounter = 1
  /\ typeMap = EmptyMap
  /\ errors = <<>>
  /\ macros = EmptyMap
  /\ promises = <<>>
  /\ jobs = <<>>
  /\ linePromises = <<>>
  /\ allPromise = 0
  /\ allValues = <<>>
  /\ allLeft = 0
  /\ result = NoResult
  /\ \E b \in 1..Len(PairTexts) : other = NewCall(PairTexts[b], "B")
  /\ alone = <<>>
  /\ renders = <<>>
  /\ logger = [logs |-> <<>>, step |-> 0]
  /\ awaiting = {}
  /\ entries = EmptyMap
  /\ now = 0

\* One job of the call that runs.
StepOfCall == Next

\* A call that ran alone has returned: the call that waited starts, and the
\* text of the finished call is given to a new call that waits for it.
CallAgain ==
  /\ pc = "done"
  /\ Len(alone) < 2
  /\ alone' = Append(alone, Outcome(Suspended))
  /\ Resume(other)
  /\ \E c \in {NewCall(input, Running)} : other' = c
  /\ UNCHANGED <<renders, logger, awaiting, entries, now>>

\* The next job of the queue belongs to the other call.
Switch ==
  /\ Len(alone) = 2
  /\ other.pc # "done"
  /\ Resume(other)
  /\ \E c \in {Suspended} : other' = c
  /\ UNCHANGED <<alone, renders, logger, awaiting, entries, now>>

PairNext ==
  \/ StepOfCall
  \/ CallAgain
  \/ Switch

PairSpec == PairInit /\ [][PairNext]_vars

\* The outcome the text of call c had when it was compiled alone.
AloneOf(c) == alone[IF c.who = "A" THEN 1 ELSE 2]

\* The call c starts with a new context and ends as its text did alone.
StartsNewAndEndsAsAlone(c) ==
  /\ c.pc = "start" =>
       c.sc = 1 /\ c.tm = EmptyMap /\ c.macros = EmptyMap /\ c.errs = <<>>
  /\ (Len(alone) = 2 /\ c.pc = "done") => Outcome(c) = AloneOf(c)

\* C22: two compile calls, one after the other or interleaved, do not
\* influence each other: each starts with id counter 1 and an empty type
\* map, macro table and diagnostics list, and the steps and diagnostics of
\* each are those of the same text compiled alone, also when the other fails.
C22_CallsDoNotInterfere ==
  StartsNewAndEndsAsAlone(Suspended) /\ StartsNewAndEndsAsAlone(other)

\* Both calls of the interleaved run have returned; one of them failed and
\* the other one returned a document and has diagnostics.
C22_Witness ==
  /\ Len(alone) = 2
  /\ pc = "done"
  /\ other.pc = "done"
  /\ result.workflow = Null
  /\ other.result.workflow # Null
  /\ other.errs # <<>>

(***************************************************************************)
(* QuantumTCCLogger of framework.js: log() and verifyLogIntegrity().       *)
(* Buffers are sequences of bytes. A digest is kept as one block that      *)
(* holds the data it was made of, so that two digests are equal exactly    *)
(* when their data are. operation, metadata and timestamp are left out:    *)
(* toBytes() does not read them.                                           *)
(***************************************************************************)

\* Largest number of log() calls on the logger.
MaxLogs == 3

\* Buffer.alloc(32)
HashBytes == 32
ZeroHash == [i \in 1..HashBytes |-> "00"]

\* LatticeCrypto.hash: sha256 of the data.
hash(data) == <<[sha256 |-> data]>>

\* QuantumTCCLogEntry.toBytes: step.toString(), input, output and prevHash,
\* one after the other.
toBytes(entry) ==
  <<ToString(entry.step)>> \o entry.input \o entry.output \o entry.prevHash

\* _prevHash with a slip: the entry hashed is the last one whose storage
\* has been awaited.
PrevHashOfStored(logs) ==
  IF SelectSeq(logs, LAMBDA e : e.ipfsCid # Null) = <<>> THEN ZeroHash
  ELSE hash(toBytes(SelectSeq(logs, LAMBDA e : e.ipfsCid # Null)[
                      Len(SelectSeq(logs, LAMBDA e : e.ipfsCid # Null))]))

\* QuantumTCCLogger._prevHash
PrevHash(logs) ==
  IF Len(logs) = 0 THEN ZeroHash ELSE hash(toBytes(logs[Len(logs)]))

\* ZKProof.generateProof: a proof of the two public signals.
generateProof(data, prev) == [data |-> data, prevHash |-> prev]

\* ZKProof.verify: the proof holds for these public signals.
verify(proof, data, prev) == proof = generateProof(data, prev)

\* new QuantumTCCLogEntry({step, inputBuffer, outputBuffer, prevHash, ...})
LogEntry(step, inputBuffer, outputBuffer, prev) ==
  [step |-> step, input |-> inputBuffer, output |-> outputBuffer, prevHash |-> prev,
   zkProof |-> generateProof(<<ToString(step)>> \o inputBuffer \o outputBuffer \o prev, prev),
   ipfsCid |-> Null, ceramicId |-> Null]

\* The input and output given to log(): two calls whose entries have the
\* same bytes when step and prevHash agree, and one with no output.
LogCalls ==
  {[input |-> <<"a">>, output |-> <<"b">>],
   [input |-> <<"a", "b">>, output |-> <<>>]}

\* A new logger, no call made.
LoggerInit ==
  /\ input = << <<>> >>
  /\ pc = "logger"
  /\ cursor = 1
  /\ stepCounter = 1
  /\ typeMap = EmptyMap
  /\ errors = <<>>
  /\ macros = EmptyMap
  /\ promises = <<>>
  /\ jobs = <<>>
  /\ linePromises = <<>>
  /\ allPromise = 0
  /\ allValues = <<>>
  /\ allLeft = 0
  /\ result = NoResult
  /\ AsideInit

LoggerFrame ==
  <<input, pc, cursor, stepCounter, typeMap, errors, macros, promises, jobs,
    linePromises, allPromise, allValues, allLeft, other, alone, renders, entries, now>>

\* log(operation, input, output) up to its first await: the entry is made
\* with step++ and _prevHash() and pushed, then the call awaits ipfs.add.
Log ==
  /\ pc = "logger"
  /\ logger.step < MaxLogs
  /\ \E c \in LogCalls :
       logger' = [logs |-> Append(logger.logs,
                                  LogEntry(logger.step, c.input, c.output,
                                           PrevHash(logger.logs))),
                  step |-> logger.step + 1]
  /\ awaiting' = awaiting \cup {[entry |-> Len(logger.logs) + 1, at |-> "ipfs"]}
  /\ UNCHANGED <<result, LoggerFrame>>

\* ipfs.add has resolved: entry.ipfsCid = cid.path, and the call awaits
\* ceramic.createStream.
StoredIpfs ==
  /\ \E a \in awaiting :
       /\ a.at = "ipfs"
       /\ logger' = [logger EXCEPT !.logs[a.entry].ipfsCid = [cid |-> a.entry]]
       /\ awaiting' = (awaiting \ {a}) \cup {[entry |-> a.entry, at |-> "ceramic"]}
  /\ UNCHANGED <<result, LoggerFrame>>

\* ceramic.createStream has resolved: entry.ceramicId = stream.id, and the
\* call returns.
StoredCeramic ==
  /\ \E a \in awaiting :
       /\ a.at = "ceramic"
       /\ logger' = [logger EXCEPT !.logs[a.entry].ceramicId = [stream |-> a.entry]]
       /\ awaiting' = awaiting \ {a}
  /\ UNCHANGED <<result, LoggerFrame>>

\* The awaited storage fails (this.ipfs is null before initIPFS): the call
\* rejects and its entry stays in the log.
StorageFails ==
  /\ \E a \in awaiting : awaiting' = awaiting \ {a}
  /\ UNCHANGED <<logger, result, LoggerFrame>>

\* verifyLogIntegrity(index): what is given to zkProof.verify, and what it
\* answers.
VerifyLogIntegrity ==
  /\ pc = "logger"
  /\ \E index \in 0..MaxLogs :
       result' =
         IF index >= Len(logger.logs)
           THEN [index |-> index, checked |-> FALSE, prevHash |-> <<>>, valid |-> FALSE]
           ELSE [index |-> index, checked |-> TRUE,
                 prevHash |-> PrevHash(logger.logs),
                 valid |-> verify(logger.logs[index + 1].zkProof,
                                  toBytes(logger.logs[index + 1]),
                                  PrevHash(logger.logs))]
  /\ UNCHANGED <<logger, awaiting, LoggerFrame>>

LoggerNext ==
  \/ Log
  \/ StoredIpfs
  \/ StoredCeramic
  \/ StorageFails
  \/ VerifyLogIntegrity

LoggerSpec == LoggerInit /\ [][LoggerNext]_vars

\* C26: after any sequence of log() calls on one logger, also when a call
\* starts while an earlier one still awaits storage, the k-th entry has step
\* number k (from 0), the first entry's previous-hash is 32 zero bytes, and
\* every later entry's previous-hash is the hash of the bytes of the entry
\* just before it.
C26_LogIsChained ==
  \A k \in 1..Len(logger.logs) :
    /\ logger.logs[k].step = k - 1
    /\ k = 1 => logger.logs[k].prevHash = [i \in 1..32 |-> "00"]
    /\ k > 1 => logger.logs[k].prevHash = hash(toBytes(logger.logs[k - 1]))

\* A third call was made while the first two still await storage.
C26_Witness ==
  /\ Len(logger.logs) = 3
  /\ \A k \in 1..2 : \E a \in awaiting : a.entry = k

\* C27: verifyLogIntegrity(i) checks the proof of entry i against the
\* previous-hash the entry was made with (the hash of entry i-1, or 32 zero
\* bytes for i = 0), for every index i of a log of one or more entries.
C27_VerifyUsesEntryHash ==
  (pc = "logger" /\ result # NoResult /\ result.checked)
    => result.prevHash = logger.logs[result.index + 1].prevHash

(***************************************************************************)
(* KnowledgePool of knowledge_pool.js: addFact. A text is the sequence of  *)
(* its words, the whitespace between them left out; confidences are kept   *)
(* in tenths.                                                              *)
(***************************************************************************)

\* Latest value of Date.now().
MaxClock == 2

\* toLowerCase() of a word.
LowerWord(w) ==
  CASE w = "Water" -> "water"
    [] w = "H2O" -> "h2o"
    [] OTHER -> w

\* text.toLowerCase().replace(/\s+/g, '_')
RECURSIVE Canonical(_)
Canonical(words) ==
  IF words = <<>> THEN ""
  ELSE IF Len(words) = 1 THEN LowerWord(words[1])
  ELSE LowerWord(words[1]) \o "_" \o Canonical(Tail(words))

\* KnowledgePool._normalize: `${subject}:${predicate}:${object || ''}`,
\* lower-cased, each run of whitespace replaced by '_'.
normalize(fact) ==
  Canonical(fact.subject) \o ":" \o Canonical(fact.predicate) \o ":"
    \o Canonical(fact.object)

\* The facts given to addFact: the first two have one key, the third has
\* no object (the empty text).
Facts ==
  {[subject |-> <<"water">>, predicate |-> <<"is_composed_of">>, object |-> <<"H2O">>],
   [subject |-> <<"Water">>, predicate |-> <<"is", "composed", "of">>, object |-> <<"h2o">>],
   [subject |-> <<"gravity">>, predicate |-> <<"is_theory">>, object |-> <<>>]}

\* The confidences given to addFact: 0.4, 0.9 and 1.0.
Confidences == {4, 9, 10}

\* new KnowledgePool()
PoolInit ==
  /\ input = << <<>> >>
  /\ pc = "pool"
  /\ cursor = 1
  /\ stepCounter = 1
  /\ typeMap = EmptyMap
  /\ errors = <<>>
  /\ macros = EmptyMap
  /\ promises = <<>>
  /\ jobs = <<>>
  /\ linePromises = <<>>
  /\ allPromise = 0
  /\ allValues = <<>>
  /\ allLeft = 0
  /\ result = NoResult
  /\ AsideInit

PoolFrame ==
  <<input, pc, cursor, stepCounter, typeMap, errors, macros, promises, jobs,
    linePromises, allPromise, allValues, allLeft, result,
    other, alone, renders, logger, awaiting>>

\* Time passes between two calls.
Tick ==
  /\ pc = "pool"
  /\ now < MaxClock
  /\ now' = now + 1
  /\ UNCHANGED <<entries, PoolFrame>>

\* this.entries.set(key, { ...fact, confidence, timestamp: now })
SetEntry(key, fact, confidence) ==
  [k \in DOMAIN entries \cup {key} |->
     IF k = key
       THEN [subject |-> fact.subject, predicate |-> fact.predicate,
             object |-> fact.object, confidence |-> confidence, timestamp |-> now]
       ELSE entries[k]]

\* addFact(fact, confidence): a stored key is overwritten when the
\* confidence is higher or the clock is past the stored timestamp.
AddFact ==
  /\ pc = "pool"
  /\ \E fact \in Facts, confidence \in Confidences :
       IF normalize(fact) \in DOMAIN entries
         THEN IF \/ confidence > entries[normalize(fact)].confidence
                 \/ now > entries[normalize(fact)].timestamp
                THEN entries' = SetEntry(normalize(fact), fact, confidence)
                ELSE entries' = entries
         ELSE entries' = SetEntry(normalize(fact), fact, confidence)
  /\ UNCHANGED <<now, PoolFrame>>

PoolNext ==
  \/ Tick
  \/ AddFact

PoolSpec == PoolInit /\ [][PoolNext]_vars

\* C30: addFact of a fact whose normalized key is already stored, with a
\* confidence lower than the stored one, leaves the stored entry as it was,
\* whatever time has passed since it was stored: an entry that a call
\* changes never gets a lower confidence.
C30_LowerConfidenceIgnored ==
  [][\A k \in DOMAIN entries :
       entries'[k] # entries[k] => entries'[k].confidence >= entries[k].confidence]_vars

====
